---- MODULE Spec2Model ----
(***************************************************************************)
(* Emotion-Task-Optimizer: the Task entity (task.py) and the decision      *)
(* engine (algorithms.py) as a state machine.                              *)
(*                                                                         *)
(* Representation.                                                         *)
(*  - A datetime is a number of minutes since Monday 00:00 of the week the *)
(*    model starts in; a calendar date is a number of days since that      *)
(*    Monday.                                                              *)
(*  - A date string is [kind, day]: kind "none" is None or "", kind "text" *)
(*    is a string datetime.strptime(.., "%Y-%m-%d") rejects, kind "date"   *)
(*    is the string that parses to calendar date `day`.                    *)
(*  - Numbers with one decimal (score, success_rate, bonuses added to a    *)
(*    score) are held in tenths: success_rate 1.0 is 10, score 0.1 is 1.   *)
(*  - A Python dict is a record whose DOMAIN is the set of keys present.   *)
(*  - A Python list whose order never matters to the code (emotion_fit,    *)
(*    available_resources, time_constraints) is a set.                     *)
(*  - constraints["requires"] is [list, items]: a list of resource names,  *)
(*    or (list FALSE) the one name items[1] given as a plain string.       *)
(*  - A task object's identity is its field id.                            *)
(***************************************************************************)
EXTENDS Integers, Sequences, FiniteSets, TLC

VARIABLES
    tasks,        \* the caller's task pool: a sequence of Task objects
    conditions,   \* the caller's conditions record (a dict)
    now,          \* the wall clock, what datetime.now() returns
    op,           \* the operation that ran last
    ret,          \* what it was called with and what it returned
    csp,          \* the CSP instance being solved (CSP.__init__)
    assignment,   \* CSP.backtrack's assignment dict, in insertion order
    pc,           \* where the call that is running stands
    solo,         \* the outcome of the last csp_filter call on a one-task pool
    search,       \* the locals of the mini_a_star call that is running
    session       \* the locals of the integrated_task_mode loop that is running

vars == <<tasks, conditions, now, op, ret, csp, assignment, pc, solo, search, session>>

(***************************************************************************)
(* Bounds of the model.                                                    *)
(***************************************************************************)
MaxPool == 2          \* tasks in a pool of the filter specification
MaxCspPool == 3       \* tasks in a pool of the CSP specification
MaxAttempts == 5      \* mark_attempted calls per task
MaxDeadlinePool == 3  \* tasks in a pool of the deadline specification
MaxRankPool == 4      \* tasks in a pool of the multi-objective specification
MaxSelectPool == 3    \* tasks in a pool of the selector specification
MaxPlanPool == 3      \* tasks in a pool of the planner specification
MaxSearchPool == 2    \* tasks in a pool of the fair planner specification
MaxSessionTodos == 2  \* todo tasks of a session
MaxSessionMinutes == 6 \* minutes a session is followed for
MaxEnginePool == 2    \* tasks in a pool of the specification of all strategies
MaxPrefPool == 3       \* tasks in a pool of the preference ranking
MaxFallbackPool == 3   \* tasks in a pool of the fallback sequence
MaxLength == 3         \* the length argument of the fallback sequence
MaxFramePool == 2      \* tasks in a pool of the specification of call sequences

(***************************************************************************)
(* Generic helpers.                                                        *)
(***************************************************************************)
Max(a, b) == IF a >= b THEN a ELSE b
Min(a, b) == IF a <= b THEN a ELSE b
Abs(a) == IF a < 0 THEN -a ELSE a
Range(s) == {s[i] : i \in 1..Len(s)}
\* dict.get(key, default)
Get(d, k, default) == IF k \in DOMAIN d THEN d[k] ELSE default
SeqsUpTo(S, n) == UNION {[1..k -> S] : k \in 0..n}

(***************************************************************************)
(* datetime                                                                *)
(***************************************************************************)
\* A datetime from its calendar date, hour and minute
At(day, hour, minute) == day * 1440 + hour * 60 + minute
\* datetime.hour
Hour(t) == (t % 1440) \div 60
\* datetime.date()
DateOf(t) == t \div 1440
\* datetime.weekday(): 0 is Monday
Weekday(t) == DateOf(t) % 7
\* datetime.strptime(s, "%Y-%m-%d"): midnight of the day, or ValueError
Parses(s) == s.kind = "date"
Strptime(s) == At(s.day, 0, 0)
\* (a - b).days of a timedelta: the floor of the difference in days
DeltaDays(a, b) == (a - b) \div 1440

NoDate == [kind |-> "none", day |-> 0]
BadDate == [kind |-> "text", day |-> 0]
DateStr(d) == [kind |-> "date", day |-> d]

(***************************************************************************)
(* Task (task.py)                                                          *)
(***************************************************************************)
\* Task.__init__: the fields the engine reads and writes
NewTask(id, name, base_priority, category, duration, emotion_fit, deadline, task_type, constraints) ==
    [id |-> id, name |-> name, base_priority |-> base_priority,
     category |-> category, duration |-> duration, emotion_fit |-> emotion_fit,
     deadline |-> deadline, task_type |-> task_type, constraints |-> constraints,
     score |-> 0, completed |-> FALSE, attempt_count |-> 0, success_rate |-> 10]

\* self.preferred_time and self.energy_required, set in __init__
PreferredTime(t) == Get(t.constraints, "preferred_time", "any")
EnergyRequired(t) == Get(t.constraints, "energy_required", 5)

\* Task.is_time_suitable
is_time_suitable(t, current_time) ==
    LET hour == Hour(current_time)
        tc == Get(t.constraints, "time_constraints", {})
    IN  IF "time_constraints" \in DOMAIN t.constraints
        THEN /\ ~("morning_only" \in tc /\ hour >= 12)
             /\ ~("evening_only" \in tc /\ hour < 17)
             /\ ~("office_hours" \in tc /\ (hour < 9 \/ hour >= 17))
             /\ ~("weekends_only" \in tc /\ Weekday(current_time) < 5)
        ELSE TRUE

\* Task.get_time_suitability
get_time_suitability(t, current_time) ==
    LET hour == Hour(current_time)
        tc == Get(t.constraints, "time_constraints", {})
        pt == PreferredTime(t)
    IN  IF "morning_only" \in tc /\ hour >= 12 THEN -5
        ELSE IF "evening_only" \in tc /\ hour < 17 THEN -5
        ELSE IF "office_hours" \in tc /\ (hour < 9 \/ hour >= 17) THEN -3
        ELSE IF pt = "morning" /\ 6 <= hour /\ hour < 12 THEN 3
        ELSE IF pt = "afternoon" /\ 12 <= hour /\ hour < 17 THEN 3
        ELSE IF pt = "evening" /\ 17 <= hour /\ hour < 22 THEN 3
        ELSE IF pt = "any" THEN 1
        ELSE 0

\* The bonus of a deadline that is days_until days away
UrgencyOfDays(days_until) ==
    IF days_until < 0 THEN 10
    ELSE IF days_until = 0 THEN 8
    ELSE IF days_until <= 2 THEN 5
    ELSE IF days_until <= 7 THEN 2
    ELSE 0

\* Task.get_urgency_bonus, read at wall-clock time clock
get_urgency_bonus(t, clock) ==
    IF t.deadline.kind = "none" THEN 0
    ELSE IF ~Parses(t.deadline) THEN 0
    ELSE UrgencyOfDays(DeltaDays(Strptime(t.deadline), clock))

\* The floor of compute_score: max(0.1, score), in tenths
FloorNoClamp(score) == score
FloorScore(score) == Max(1, score)

\* Task.compute_score, in tenths.  The parameter urgency_bonus is accepted and
\* never read: the deadline's own urgency is added instead.
compute_score(t, current_emotion, current_time, current_energy, preference_bonus, urgency_bonus, clock) ==
    LET emotion_bonus == IF current_emotion \in t.emotion_fit THEN 8 ELSE -4
        type_bonus == IF t.task_type = "must_do" THEN 5
                      ELSE IF t.task_type = "mood_changer" THEN 3
                      ELSE 0
        time_bonus == get_time_suitability(t, current_time)
        energy_diff == Abs(EnergyRequired(t) - current_energy)
        energy_bonus == Max(0, 5 - energy_diff)
        success_bonus == t.success_rate * 3
        urgency == get_urgency_bonus(t, clock)
    IN  FloorScore(10 * (t.base_priority + emotion_bonus + type_bonus + time_bonus
                         + energy_bonus + preference_bonus + urgency)
                   + success_bonus)

\* mark_attempted without min(1.0, ...) and max(0.1, ...)
MarkAttemptedUnclamped(t, successful) ==
    IF successful
    THEN [t EXCEPT !.attempt_count = @ + 1, !.completed = TRUE, !.success_rate = @ + 1]
    ELSE [t EXCEPT !.attempt_count = @ + 1, !.success_rate = @ - 2]

\* Task.mark_attempted: the task after the call
mark_attempted(t, successful) ==
    IF successful
    THEN [t EXCEPT !.attempt_count = @ + 1, !.completed = TRUE,
                   !.success_rate = Min(10, @ + 1)]
    ELSE [t EXCEPT !.attempt_count = @ + 1,
                   !.success_rate = Max(1, @ - 2)]

\* check_constraints' test of constraints["requires"]: a list needs all of its
\* items available, a plain string needs itself available
ResourceMissingAny(required_item, available) ==
    \A k \in 1..Len(required_item.items) : required_item.items[k] \notin available
ResourceMissing(required_item, available) ==
    \E k \in 1..Len(required_item.items) : required_item.items[k] \notin available

\* Task.check_constraints; datetime.now() is clock
check_constraints(t, current_conditions, clock) ==
    LET c == t.constraints
        target == IF "date" \in DOMAIN c /\ c.date.kind # "none" THEN c.date
                  ELSE Get(c, "start_date", NoDate)
        too_early == /\ ("date" \in DOMAIN c \/ "start_date" \in DOMAIN c)
                     /\ Parses(target)
                     /\ DateOf(clock) < target.day
        available == Get(current_conditions, "available_resources", {})
        missing == "requires" \in DOMAIN c /\ ResourceMissing(c.requires, available)
        too_long == "max_time" \in DOMAIN c /\ t.duration > c.max_time
    IN  /\ ~too_early
        /\ ~missing
        /\ ~too_long
        /\ is_time_suitable(t, clock)

(***************************************************************************)
(* State shared by the specifications.                                     *)
(***************************************************************************)
\* The dict with no key
EmptyDict == <<>>
NoSolo == [idx |-> 0, emotion |-> "", outcome |-> "none"]
\* No mini_a_star call is running
NoSearch == EmptyDict
\* No session loop is running
NoSession == EmptyDict
\* No CSP instance exists
CspIdle == csp = EmptyDict /\ assignment = <<>> /\ pc = "idle" /\ solo = NoSolo

Emotions == {"sad", "happy"}
\* Tuesday 00:00, Tuesday 10:30, Tuesday 18:00, Saturday 10:30
Clocks == {At(1, 0, 0), At(1, 10, 30), At(1, 18, 0), At(5, 10, 30)}

\* The wall clock moves on, to the next of the model's clock readings, between
\* two calls
Tick ==
    /\ pc = "idle"
    /\ \E later \in Clocks :
          /\ later > now
          /\ \A c \in Clocks : c > now => later <= c
          /\ now' = later
    /\ op' = "tick"
    /\ ret' = EmptyDict
    /\ solo' = NoSolo
    /\ UNCHANGED <<tasks, conditions, csp, assignment, pc>>
    /\ UNCHANGED <<search, session>>

(***************************************************************************)
(* Scoring: Task.compute_score and Task.mark_attempted on one task.        *)
(***************************************************************************)
ScoreConstraints ==
    { EmptyDict,
      [time_constraints |-> {"morning_only", "office_hours"}, preferred_time |-> "evening"],
      [preferred_time |-> "morning", energy_required |-> 9] }

ScoreTasks ==
    { NewTask(1, "Report", p, "work", 30, {"sad"}, NoDate, ty, c) :
        p \in {1, 10}, ty \in {"general", "must_do"}, c \in ScoreConstraints }
    \cup { NewTask(1, "Report", 1, "work", 30, {"sad"}, d, "mood_changer", EmptyDict) :
              d \in {BadDate, DateStr(2)} }

InitScore ==
    /\ tasks \in {<<t>> : t \in ScoreTasks}
    /\ conditions = EmptyDict
    /\ now = At(1, 18, 0)
    /\ op = "init"
    /\ ret = EmptyDict
    /\ CspIdle
    /\ search = NoSearch
    /\ session = NoSession

\* The argument pairs (preference_bonus, urgency_bonus) of the model's calls
BonusArgs == {<<-100, 0>>, <<0, 10>>, <<3, 0>>}

\* task.compute_score(current_emotion, current_time, current_energy,
\*                    preference_bonus, urgency_bonus); current_time None is now
ComputeScore ==
    /\ \E i \in 1..Len(tasks), current_emotion \in Emotions,
          current_time \in {now, At(1, 10, 30)}, current_energy \in {1, 5},
          bonus \in BonusArgs :
          LET value == compute_score(tasks[i], current_emotion, current_time,
                                     current_energy, bonus[1], bonus[2], now)
          IN  /\ tasks' = [tasks EXCEPT ![i].score = value]
              /\ ret' = [task |-> i, value |-> value,
                         current_emotion |-> current_emotion,
                         current_time |-> current_time,
                         current_energy |-> current_energy,
                         preference_bonus |-> bonus[1],
                         urgency_bonus |-> bonus[2]]
    /\ op' = "compute_score"
    /\ UNCHANGED <<conditions, now, csp, assignment, pc, solo>>
    /\ UNCHANGED <<search, session>>

\* task.mark_attempted(successful)
MarkAttempted ==
    /\ \E i \in 1..Len(tasks), successful \in BOOLEAN :
          /\ tasks[i].attempt_count < MaxAttempts
          /\ tasks' = [tasks EXCEPT ![i] = mark_attempted(@, successful)]
          /\ ret' = [task |-> i, successful |-> successful]
    /\ op' = "mark_attempted"
    /\ UNCHANGED <<conditions, now, csp, assignment, pc, solo>>
    /\ UNCHANGED <<search, session>>

NextScore == ComputeScore \/ MarkAttempted \/ Tick

SpecScore == InitScore /\ [][NextScore]_vars

\* C1: every compute_score call returns at least 0.1 (1 tenth) and leaves the
\* task's score field equal to the value it returned, whatever the arguments
\* and whatever success_rate mark_attempted has led to.
ScoreAtLeastTenth ==
    op = "compute_score" =>
        /\ ret.value >= 1
        /\ tasks[ret.task].score = ret.value

\* C1's case: a failed attempt lowered success_rate, then a call with a large
\* negative preference bonus came back floored at 0.1
ScoreFloorReached ==
    /\ op = "compute_score"
    /\ ret.preference_bonus < 0
    /\ ret.value = 1
    /\ tasks[ret.task].success_rate < 10

\* The score C21 states, in tenths: the caller's urgency_bonus is added as
\* given and the task's deadline adds nothing
ClaimedScore(t, current_emotion, current_time, current_energy, preference_bonus, urgency_bonus) ==
    LET emotion_bonus == IF current_emotion \in t.emotion_fit THEN 8 ELSE -4
        type_bonus == IF t.task_type = "must_do" THEN 5
                      ELSE IF t.task_type = "mood_changer" THEN 3
                      ELSE 0
        energy_diff == Abs(EnergyRequired(t) - current_energy)
        sum == 10 * (t.base_priority + emotion_bonus + type_bonus
                     + get_time_suitability(t, current_time)
                     + (IF 5 - energy_diff > 0 THEN 5 - energy_diff ELSE 0)
                     + preference_bonus + urgency_bonus)
               + 3 * t.success_rate
    IN  IF sum > 1 THEN sum ELSE 1

\* C21: compute_score(emotion, time, energy, preference_bonus, urgency_bonus)
\* equals max(0.1, base_priority + emotion term + type term + time
\* suitability + energy term + 3 * success_rate + preference_bonus +
\* urgency_bonus): the caller's urgency_bonus is added as given and the
\* task's own deadline adds nothing unless the caller invokes
\* get_urgency_bonus.
ScoreIsClaimedSum ==
    op = "compute_score" =>
        ret.value = ClaimedScore(tasks[ret.task], ret.current_emotion, ret.current_time,
                                 ret.current_energy, ret.preference_bonus,
                                 ret.urgency_bonus)

(***************************************************************************)
(* The strict filter (algorithms.py, apply_strict_constraints).            *)
(***************************************************************************)
\* The emotion test of apply_strict_constraints: a must-do task of priority 7
\* or more passes whatever the emotion
EmotionAdmitsAbove7(task, current_emotion) ==
    \/ current_emotion \in task.emotion_fit
    \/ task.task_type = "must_do" /\ task.base_priority > 7
EmotionAdmits(task, current_emotion) ==
    \/ current_emotion \in task.emotion_fit
    \/ task.task_type = "must_do" /\ task.base_priority >= 7

\* One pass of the filter's loop body: does the task reach valid_tasks.append
StrictlyValid(task, conds, current_emotion, clock) ==
    LET current_time == Get(conds, "current_time", clock)
    IN  IF ~EmotionAdmits(task, current_emotion) THEN FALSE
        ELSE IF ~is_time_suitable(task, current_time) THEN FALSE
        ELSE IF ~check_constraints(task, conds, clock) THEN FALSE
        ELSE TRUE

\* The loop of apply_strict_constraints from position i on, valid_tasks so far
RECURSIVE StrictLoop(_, _, _, _, _, _)
StrictLoop(ts, i, valid_tasks, conds, current_emotion, clock) ==
    IF i > Len(ts) THEN valid_tasks
    ELSE StrictLoop(ts, i + 1,
                    IF StrictlyValid(ts[i], conds, current_emotion, clock)
                    THEN Append(valid_tasks, ts[i]) ELSE valid_tasks,
                    conds, current_emotion, clock)

\* apply_strict_constraints(tasks, conditions, current_emotion)
apply_strict_constraints(ts, conds, current_emotion, clock) ==
    IF ts = <<>> THEN <<>>
    ELSE StrictLoop(ts, 1, <<>>, conds, current_emotion, clock)

\* A pool of the given templates: task objects 1..n in list order
PoolOf(templates) == [i \in DOMAIN templates |-> [templates[i] EXCEPT !.id = i]]

FilterConstraints ==
    { EmptyDict,
      [requires |-> [list |-> FALSE, items |-> <<"outdoors">>]],
      [requires |-> [list |-> TRUE, items |-> <<"outdoors", "music">>]],
      [time_constraints |-> {"morning_only"}],
      [time_constraints |-> {"weekends_only"}, max_time |-> 45],
      [start_date |-> DateStr(3), max_time |-> 20],
      [date |-> BadDate, requires |-> [list |-> TRUE, items |-> <<"music">>]] }

FilterTasks ==
    { NewTask(0, "Walk", p[2], "mood", 30, {"sad"}, NoDate, p[1], c) :
        p \in {<<"general", 9>>, <<"must_do", 7>>, <<"must_do", 6>>},
        c \in {EmptyDict,
               [requires |-> [list |-> FALSE, items |-> <<"outdoors">>]],
               [time_constraints |-> {"morning_only"}]} }
    \cup { NewTask(0, "Study", 5, "work", 30, {"sad", "happy"}, NoDate, "general", c) :
             c \in FilterConstraints }

FilterConditions ==
    { EmptyDict,
      [current_time |-> At(1, 10, 30)],
      [available_resources |-> {"outdoors"}],
      [current_time |-> At(1, 10, 30), available_resources |-> {"outdoors", "music"}] }

InitFilter ==
    /\ tasks \in {PoolOf(ts) : ts \in SeqsUpTo(FilterTasks, MaxPool)}
    /\ conditions \in FilterConditions
    /\ now = At(1, 18, 0)
    /\ op = "init"
    /\ ret = EmptyDict
    /\ CspIdle
    /\ search = NoSearch
    /\ session = NoSession

\* apply_strict_constraints(tasks, conditions, current_emotion)
ApplyStrictConstraints ==
    /\ \E current_emotion \in Emotions :
          ret' = [emotion |-> current_emotion,
                  out |-> apply_strict_constraints(tasks, conditions,
                                                   current_emotion, now)]
    /\ op' = "apply_strict_constraints"
    /\ UNCHANGED <<tasks, conditions, now, csp, assignment, pc, solo>>
    /\ UNCHANGED <<search, session>>

\* task.check_constraints(conditions)
CheckConstraints ==
    /\ \E i \in 1..Len(tasks) :
          ret' = [task |-> i, value |-> check_constraints(tasks[i], conditions, now)]
    /\ op' = "check_constraints"
    /\ UNCHANGED <<tasks, conditions, now, csp, assignment, pc, solo>>
    /\ UNCHANGED <<search, session>>

NextFilter == ApplyStrictConstraints \/ CheckConstraints \/ Tick

SpecFilter == InitFilter /\ [][NextFilter]_vars

\* The time the conditions record gives a call, the wall clock when it has none
ConditionsTime == IF "current_time" \in DOMAIN conditions
                  THEN conditions.current_time ELSE now

\* The admissibility the filter is specified to apply to one task
Admissible(t, emotion) ==
    /\ emotion \in t.emotion_fit \/ (t.task_type = "must_do" /\ t.base_priority >= 7)
    /\ is_time_suitable(t, ConditionsTime)
    /\ check_constraints(t, conditions, now)

\* C2: the filter returns exactly the admissible input tasks, each once, in
\* input order and as the very objects of the input list.
StrictFilterExact ==
    op = "apply_strict_constraints" =>
        LET out == ret.out
        IN  /\ \A k \in 1..Len(out) :
                  out[k].id \in 1..Len(tasks) /\ out[k] = tasks[out[k].id]
            /\ \A k, l \in 1..Len(out) : k < l => out[k].id < out[l].id
            /\ \A i \in 1..Len(tasks) :
                  Admissible(tasks[i], ret.emotion)
                      <=> \E k \in 1..Len(out) : out[k].id = i

\* C2's case: the filter kept a must-do task that does not fit the emotion and
\* dropped another task
StrictFilterKeptAndDropped ==
    /\ op = "apply_strict_constraints"
    /\ Len(ret.out) >= 1
    /\ Len(ret.out) < Len(tasks)
    /\ \E k \in 1..Len(ret.out) : ret.emotion \notin ret.out[k].emotion_fit

\* A task names a required resource the conditions do not offer
LacksResource(t) ==
    /\ "requires" \in DOMAIN t.constraints
    /\ \E k \in 1..Len(t.constraints.requires.items) :
          t.constraints.requires.items[k]
              \notin Get(conditions, "available_resources", {})

\* C3: a task that names an unavailable resource fails check_constraints and is
\* left out by the strict filter, whatever the emotion, must-do or not.
MissingResourceExcludes ==
    /\ op = "check_constraints" /\ LacksResource(tasks[ret.task]) => ret.value = FALSE
    /\ op = "apply_strict_constraints" =>
           \A i \in 1..Len(tasks) :
               LacksResource(tasks[i]) =>
                   \A k \in 1..Len(ret.out) : ret.out[k].id # i

\* C3's case: a must-do task of priority 7 that lacks its resource was left
\* out of a filter result that kept another task
MustDoLackingResourceDropped ==
    /\ op = "apply_strict_constraints"
    /\ Len(ret.out) >= 1
    /\ \E i \in 1..Len(tasks) :
          /\ LacksResource(tasks[i])
          /\ tasks[i].task_type = "must_do" /\ tasks[i].base_priority >= 7
          /\ ret.emotion \notin tasks[i].emotion_fit
          /\ \A k \in 1..Len(ret.out) : ret.out[k].id # i

(***************************************************************************)
(* The CSP solver (algorithms.py, class CSP and csp_filter).               *)
(* csp is the instance: [tasks, emotion, conditions]; self.variables and   *)
(* self.task_map are derived from csp.tasks as __init__ derives them.      *)
(* assignment is the dict of backtrack, a sequence of [var, value] in      *)
(* insertion order; since every frame of the recursion inserts one key     *)
(* before it recurses, it is the recursion stack as well.                  *)
(***************************************************************************)
\* What a heuristic returns when no variable is unassigned
NoneVar == "<None>"

\* self.variables = [task.name for task in tasks]
Variables(c) == [i \in 1..Len(c.tasks) |-> c.tasks[i].name]

\* self.task_map = {task.name: task for task in tasks}: the last task of a
\* name wins
InTaskMap(c, name) == \E i \in 1..Len(c.tasks) : c.tasks[i].name = name
TaskMap(c, name) ==
    LET last == CHOOSE i \in 1..Len(c.tasks) :
                    /\ c.tasks[i].name = name
                    /\ \A j \in 1..Len(c.tasks) : c.tasks[j].name = name => j <= i
    IN  c.tasks[last]

\* var in assignment
Assigned(assign, var) == \E k \in 1..Len(assign) : assign[k].var = var

\* The closure of add_emotion_constraint
emotion_constraint_bypass(c, variable, value) ==
    value => LET task == TaskMap(c, variable)
             IN  \/ c.emotion \in task.emotion_fit
                 \/ task.task_type = "must_do" /\ task.base_priority >= 7
emotion_constraint(c, variable, value) ==
    value => c.emotion \in TaskMap(c, variable).emotion_fit

\* The closure of add_time_constraint
time_constraint(c, variable, value, clock) ==
    value => is_time_suitable(TaskMap(c, variable),
                              Get(c.conditions, "current_time", clock))

\* The closure of add_resource_constraint
resource_constraint(c, variable, value, clock) ==
    value => check_constraints(TaskMap(c, variable), c.conditions, clock)

\* CSP.is_consistent raises KeyError: a closure looks up self.task_map[variable]
ConsistentRaises(c, variable, value) == value /\ ~InTaskMap(c, variable)

\* CSP.is_consistent, the constraints in the order __init__ adds them
is_consistent(c, assign, variable, value, clock) ==
    IF ~emotion_constraint(c, variable, value) THEN FALSE
    ELSE IF ~resource_constraint(c, variable, value, clock) THEN FALSE
    ELSE IF ~time_constraint(c, variable, value, clock) THEN FALSE
    ELSE TRUE

\* The unassigned variables, in the order of self.variables
Unassigned(c, assign) ==
    SelectSeq(Variables(c), LAMBDA var : ~Assigned(assign, var))

\* The number of values of self.domains[variable] that are consistent
LegalValues(c, assign, variable, clock) ==
    Cardinality({value \in BOOLEAN : is_consistent(c, assign, variable, value, clock)})

\* CSP.mrv_heuristic: the first unassigned variable of the least legal values
mrv_heuristic(c, assign, clock) ==
    LET unassigned == Unassigned(c, assign)
        legal(k) == LegalValues(c, assign, unassigned[k], clock)
    IN  IF unassigned = <<>> THEN NoneVar
        ELSE unassigned[CHOOSE k \in 1..Len(unassigned) :
                 /\ \A j \in 1..Len(unassigned) : legal(k) <= legal(j)
                 /\ \A j \in 1..(k - 1) : legal(j) > legal(k)]

\* if required: a non-empty string or list
Truthy(required) == IF required.list THEN required.items # <<>>
                    ELSE required.items[1] # ""

\* task.constraints.get("requires", "")
RequiresOrEmpty(task) ==
    Get(task.constraints, "requires", [list |-> FALSE, items |-> <<"">>])

\* The degree of a variable in CSP.degree_heuristic
Degree(c, unassigned, k, clock) ==
    LET task1 == TaskMap(c, unassigned[k])
        shared(j) ==
            LET task2 == TaskMap(c, unassigned[j])
                req1 == RequiresOrEmpty(task1)
                req2 == RequiresOrEmpty(task2)
            IN  (IF ~is_time_suitable(task1, clock) /\ ~is_time_suitable(task2, clock)
                 THEN 1 ELSE 0)
                + (IF Truthy(req1) /\ Truthy(req2) /\ req1 = req2 THEN 1 ELSE 0)
        others == {j \in 1..Len(unassigned) : unassigned[j] # unassigned[k]}
        RECURSIVE Sum(_)
        Sum(S) == IF S = {} THEN 0
                  ELSE LET j == CHOOSE x \in S : TRUE IN shared(j) + Sum(S \ {j})
    IN  Sum(others)

\* CSP.degree_heuristic: the first unassigned variable of the greatest degree
degree_heuristic(c, assign, clock) ==
    LET unassigned == Unassigned(c, assign)
        degree(k) == Degree(c, unassigned, k, clock)
    IN  IF unassigned = <<>> THEN NoneVar
        ELSE unassigned[CHOOSE k \in 1..Len(unassigned) :
                 /\ \A j \in 1..Len(unassigned) : degree(k) >= degree(j)
                 /\ \A j \in 1..(k - 1) : degree(j) < degree(k)]

\* The selection left to the Degree heuristic alone
SelectByDegree(c, assign, clock) == degree_heuristic(c, assign, clock)

\* The variable backtrack selects
SelectVar(c, assign, clock) ==
    IF mrv_heuristic(c, assign, clock) # NoneVar
    THEN mrv_heuristic(c, assign, clock)
    ELSE degree_heuristic(c, assign, clock)

\* A call of backtrack returned None to the frame that had inserted the last
\* key: that frame deletes the key and goes on with its loop over [True,
\* False]; when the loop is over it returns None in its turn.  The result is
\* the assignment the search resumes with, or "failed" when the outermost call
\* returns None.
RECURSIVE Unwind(_, _, _)
Unwind(c, assign, clock) ==
    IF assign = <<>> THEN [state |-> "failed", assignment |-> <<>>]
    ELSE LET top == assign[Len(assign)]
             rest == SubSeq(assign, 1, Len(assign) - 1)
         IN  IF top.value = TRUE /\ is_consistent(c, rest, top.var, FALSE, clock)
             THEN [state |-> "backtrack",
                   assignment |-> Append(rest, [var |-> top.var, value |-> FALSE])]
             ELSE Unwind(c, rest, clock)

\* One call of CSP.backtrack(assignment), up to its recursive call or return
BacktrackCall(c, assign, clock) ==
    IF Len(assign) = Len(Variables(c))
    THEN [state |-> "solved", assignment |-> assign]
    ELSE LET var == SelectVar(c, assign, clock)
         IN  IF ConsistentRaises(c, var, TRUE)
             THEN [state |-> "raised", assignment |-> assign]
             ELSE IF is_consistent(c, assign, var, TRUE, clock)
             THEN [state |-> "backtrack",
                   assignment |-> Append(assign, [var |-> var, value |-> TRUE])]
             ELSE IF is_consistent(c, assign, var, FALSE, clock)
             THEN [state |-> "backtrack",
                   assignment |-> Append(assign, [var |-> var, value |-> FALSE])]
             ELSE Unwind(c, assign, clock)

\* The warnings CSP.solve attaches to one recommended task
WarningsOf(c, task, clock) ==
    (IF ~is_time_suitable(task, Get(c.conditions, "current_time", clock))
     THEN <<[task |-> task.name, kind |-> "time"]>> ELSE <<>>)
    \o (IF /\ ~check_constraints(task, c.conditions, clock)
           /\ Truthy(RequiresOrEmpty(task))
        THEN <<[task |-> task.name, kind |-> "requires"]>> ELSE <<>>)

\* The loop of CSP.solve over solution.items() from position k on
RECURSIVE SolveLoop(_, _, _, _, _)
SolveLoop(c, solution, k, acc, clock) ==
    IF k > Len(solution) THEN acc
    ELSE IF solution[k].value
    THEN LET task == TaskMap(c, solution[k].var)
         IN  SolveLoop(c, solution, k + 1,
                       [out |-> Append(acc.out, task),
                        warnings |-> acc.warnings \o WarningsOf(c, task, clock)],
                       clock)
    ELSE SolveLoop(c, solution, k + 1, acc, clock)

\* What CSP.solve returns once backtrack has returned
SolveResult(c, outcome, clock) ==
    IF outcome.state = "failed"
    THEN [out |-> <<>>, warnings |-> <<[task |-> "", kind |-> "no solution"]>>]
    ELSE SolveLoop(c, outcome.assignment, 1, [out |-> <<>>, warnings |-> <<>>], clock)

CspTasks ==
    { NewTask(0, "Walk", 9, "mood", 30, {"sad"}, NoDate, "general", EmptyDict),
      NewTask(0, "Walk", 7, "todo_must", 30, {"sad"}, NoDate, "must_do", EmptyDict),
      NewTask(0, "Report", 6, "todo_must", 30, {"happy"}, NoDate, "must_do",
              [requires |-> [list |-> FALSE, items |-> <<"outdoors">>]]),
      NewTask(0, "Study", 5, "work", 30, {"sad", "happy"}, NoDate, "general",
              [time_constraints |-> {"morning_only"}]),
      NewTask(0, "Gym", 8, "todo_must", 30, {"sad"}, NoDate, "must_do",
              [requires |-> [list |-> TRUE, items |-> <<"outdoors", "music">>]]),
      NewTask(0, "Garden", 5, "life", 30, {"sad", "happy"}, NoDate, "general",
              [time_constraints |-> {"weekends_only"},
               requires |-> [list |-> FALSE, items |-> <<"outdoors">>]]) }

CspConditions ==
    { EmptyDict,
      [current_time |-> At(1, 18, 0), available_resources |-> {"outdoors"}] }

InitCsp ==
    /\ tasks \in {PoolOf(ts) : ts \in SeqsUpTo(CspTasks, MaxCspPool)}
    /\ conditions \in CspConditions
    /\ now = At(1, 18, 0)
    /\ op = "init"
    /\ ret = EmptyDict
    /\ CspIdle
    /\ search = NoSearch
    /\ session = NoSession

\* The outcome of a finished csp_filter call for the task object of identity i
OutcomeOf(result, i) ==
    IF result.state = "raised" THEN "raised"
    ELSE IF \E k \in 1..Len(result.out) : result.out[k].id = i THEN "recommended"
    ELSE "not recommended"

\* csp_filter(ts, emotion, conditions) is called, ts being the whole pool
\* (sub = 0) or the one-task list [tasks[sub]]: CSP.__init__, and solve up to
\* its call of backtrack
CspFilter ==
    /\ pc = "idle"
    /\ \E emotion \in Emotions, sub \in 0..Len(tasks) :
          LET ts == IF sub = 0 THEN tasks ELSE <<tasks[sub]>>
          IN  IF ts = <<>>
              THEN /\ ret' = [emotion |-> emotion, sub |-> sub, state |-> "returned",
                              out |-> <<>>, warnings |-> <<>>]
                   /\ UNCHANGED <<csp, assignment, pc>>
              ELSE /\ csp' = [tasks |-> ts, emotion |-> emotion,
                              conditions |-> conditions]
                   /\ assignment' = <<>>
                   /\ pc' = "backtrack"
                   /\ ret' = [emotion |-> emotion, sub |-> sub, state |-> "running"]
    /\ op' = "csp_filter"
    /\ UNCHANGED <<tasks, conditions, now, solo>>
    /\ UNCHANGED <<search, session>>

\* One call of CSP.backtrack; the call that returns ends solve and csp_filter
Backtrack ==
    /\ pc = "backtrack"
    /\ LET outcome == BacktrackCall(csp, assignment, now)
           result == [emotion |-> ret.emotion, sub |-> ret.sub,
                      state |-> IF outcome.state = "raised" THEN "raised"
                                ELSE "returned"]
                     @@ IF outcome.state = "raised" THEN EmptyDict
                        ELSE SolveResult(csp, outcome, now)
       IN  /\ assignment' = outcome.assignment
           /\ IF outcome.state = "backtrack"
              THEN UNCHANGED <<pc, ret, solo>>
              ELSE /\ pc' = "idle"
                   /\ ret' = result
                   /\ solo' = IF ret.sub # 0
                              THEN [idx |-> ret.sub, emotion |-> ret.emotion,
                                    outcome |-> OutcomeOf(result, ret.sub)]
                              ELSE solo
    /\ UNCHANGED <<tasks, conditions, now, op, csp>>
    /\ UNCHANGED <<search, session>>

NextCsp == CspFilter \/ Backtrack \/ Tick

SpecCsp == InitCsp /\ [][NextCsp]_vars

\* The list a csp_filter call was given
CalledTasks == IF ret.sub = 0 THEN tasks ELSE <<tasks[ret.sub]>>
\* A csp_filter call has ended, by a return or by an exception
CspEnded == op = "csp_filter" /\ pc = "idle"
DistinctNames(ts) == \A i, j \in 1..Len(ts) : ts[i].name = ts[j].name => i = j

CspOutcomeSameAlone ==
    CspEnded /\ ret.sub = 0 /\ solo.idx # 0 /\ solo.emotion = ret.emotion =>
        OutcomeOf(ret, solo.idx) = solo.outcome

(***************************************************************************)
(* The deadline selector (algorithms.py, csp_task).                        *)
(***************************************************************************)
\* list.sort(key=...): a stable sort of [key, ..] records by ascending key
SortedInsert(sorted, x) ==
    LET after == Cardinality({k \in 1..Len(sorted) : sorted[k].key <= x.key})
    IN  SubSeq(sorted, 1, after) \o <<x>> \o SubSeq(sorted, after + 1, Len(sorted))
RECURSIVE StableSort(_)
StableSort(s) ==
    IF s = <<>> THEN <<>>
    ELSE SortedInsert(StableSort(SubSeq(s, 1, Len(s) - 1)), s[Len(s)])

\* days_until of a task whose deadline parses
DaysUntil(task, current_time) == DeltaDays(Strptime(task.deadline), current_time)

\* The urgency category csp_task files days_until under
CategoryOfDays(days_until) ==
    IF days_until < 0 THEN "overdue"
    ELSE IF days_until = 0 THEN "due_today"
    ELSE IF days_until = 1 THEN "due_tomorrow"
    ELSE IF days_until <= 7 THEN "due_week"
    ELSE "due_later"

\* The order csp_task looks the categories up in
UrgencyOrderTodayFirst == <<"due_today", "overdue", "due_tomorrow", "due_week", "due_later">>
UrgencyOrder == <<"overdue", "due_today", "due_tomorrow", "due_week", "due_later">>

\* The key csp_task sorts a category by
SortKey(category, days_until) ==
    IF category = "overdue" THEN Abs(days_until) ELSE days_until

\* urgency_categories[category]: the (task, days_until) pairs in list order,
\* tasks whose deadline is unset or does not parse left out
Bucket(ts, category, current_time) ==
    LET filed(t) == /\ t.deadline.kind # "none"
                    /\ Parses(t.deadline)
                    /\ CategoryOfDays(DaysUntil(t, current_time)) = category
        kept == SelectSeq(ts, filed)
    IN  [k \in 1..Len(kept) |->
            [task |-> kept[k], days |-> DaysUntil(kept[k], current_time),
             key |-> SortKey(category, DaysUntil(kept[k], current_time))]]

\* The warning of a category; the messages that hold a number carry it in days
WarningOf(category, days) ==
    IF category = "overdue"
    THEN [text |-> "This task is {} days OVERDUE! You should complete it immediately.",
          days |-> Abs(days)]
    ELSE IF category = "due_today"
    THEN [text |-> "This task is DUE TODAY! Complete it now.", days |-> 0]
    ELSE IF category = "due_tomorrow"
    THEN [text |-> "This task is due TOMORROW. Consider starting it today.", days |-> 0]
    ELSE IF category = "due_week"
    THEN [text |-> "This task is due in {} days. Plan accordingly.", days |-> days]
    ELSE [text |-> "This task is due in {} days.", days |-> days]

\* A message without a number
Message(text) == [text |-> text, days |-> 0]

\* csp_task(tasks, current_time): [task, warning, urgency]; task 0 is None
csp_task(ts, current_time) ==
    LET with_deadlines == SelectSeq(ts, LAMBDA t : t.deadline.kind # "none")
        nonempty == {n \in 1..Len(UrgencyOrder) :
                        Bucket(with_deadlines, UrgencyOrder[n], current_time) # <<>>}
    IN  IF ts = <<>>
        THEN [task |-> 0, warning |-> Message("No tasks with deadlines found"),
              urgency |-> "none"]
        ELSE IF with_deadlines = <<>>
        THEN [task |-> 0, warning |-> Message("No tasks have deadlines set"),
              urgency |-> "none"]
        ELSE IF nonempty = {}
        THEN [task |-> 0, warning |-> Message(""), urgency |-> "none"]
        ELSE LET n == CHOOSE n \in nonempty : \A m \in nonempty : n <= m
                 category == UrgencyOrder[n]
                 first == StableSort(Bucket(with_deadlines, category, current_time))[1]
             IN  [task |-> first.task.id,
                  warning |-> WarningOf(category, first.days),
                  urgency |-> category]

DeadlineValues ==
    {NoDate, BadDate, DateStr(-2), DateStr(0), DateStr(1), DateStr(2), DateStr(3),
     DateStr(5), DateStr(12)}

DeadlineTasks ==
    { NewTask(0, "Report", 5, "todo_must", 30, {"sad"}, d, "must_do", EmptyDict) :
        d \in DeadlineValues }

InitDeadline ==
    /\ tasks \in {PoolOf(ts) : ts \in SeqsUpTo(DeadlineTasks, MaxDeadlinePool)}
    /\ conditions = EmptyDict
    /\ now = At(1, 0, 0)
    /\ op = "init"
    /\ ret = EmptyDict
    /\ CspIdle
    /\ search = NoSearch
    /\ session = NoSession

\* csp_task(tasks, current_time); current_time None is the wall clock
CspTask ==
    /\ \E current_time \in {now, At(1, 10, 30)} :
          ret' = [current_time |-> current_time] @@ csp_task(tasks, current_time)
    /\ op' = "csp_task"
    /\ UNCHANGED <<tasks, conditions, now, csp, assignment, pc, solo>>
    /\ UNCHANGED <<search, session>>

\* task.get_urgency_bonus()
GetUrgencyBonus ==
    /\ \E i \in 1..Len(tasks) :
          ret' = [task |-> i, value |-> get_urgency_bonus(tasks[i], now)]
    /\ op' = "get_urgency_bonus"
    /\ UNCHANGED <<tasks, conditions, now, csp, assignment, pc, solo>>
    /\ UNCHANGED <<search, session>>

NextDeadline == CspTask \/ GetUrgencyBonus \/ Tick

SpecDeadline == InitDeadline /\ [][NextDeadline]_vars

\* The tasks of the pool whose deadline is set and parses, with the days
\* until it at the call's current_time
Dated == {i \in 1..Len(tasks) : tasks[i].deadline.kind = "date"}
DaysLeft(i) == DaysUntil(tasks[i], ret.current_time)

\* C6: with no parseable deadline in the pool csp_task returns None, a message
\* that is not empty and urgency "none"; the empty pool gets the message
\* "No tasks with deadlines found".
NoDeadlineGivesMessage ==
    op = "csp_task" /\ Dated = {} =>
        /\ ret.task = 0
        /\ ret.urgency = "none"
        /\ ret.warning.text # ""
        /\ tasks = <<>> => ret.warning.text = "No tasks with deadlines found"

\* C7: the selected task lies in the first non-empty category of the order
\* overdue, due_today, due_tomorrow, due_week, due_later; the urgency is that
\* category's name and the warning that category's text.  With a deadline
\* date before the current date in the pool, the category is overdue and the
\* warning says OVERDUE.
FirstBucketSelected ==
    op = "csp_task" /\ Dated # {} =>
        LET order == <<"overdue", "due_today", "due_tomorrow", "due_week", "due_later">>
            held(n) == \E i \in Dated : CategoryOfDays(DaysLeft(i)) = order[n]
            first == CHOOSE n \in 1..5 : held(n) /\ \A m \in 1..(n - 1) : ~held(m)
        IN  /\ ret.task \in Dated
            /\ CategoryOfDays(DaysLeft(ret.task)) = order[first]
            /\ ret.urgency = order[first]
            /\ ret.warning = WarningOf(order[first], DaysLeft(ret.task))
            /\ (\E i \in Dated : tasks[i].deadline.day < DateOf(ret.current_time)) =>
                   /\ ret.urgency = "overdue"
                   /\ DaysLeft(ret.task) < 0
                   /\ ret.warning.text
                        = "This task is {} days OVERDUE! You should complete it immediately."

\* C7's case: a pool with a deadline before the current date and a later one;
\* the overdue category was selected
OverdueSelectedAmongOthers ==
    /\ op = "csp_task"
    /\ ret.urgency = "overdue"
    /\ \E i, j \in Dated :
          /\ tasks[i].deadline.day < DateOf(ret.current_time)
          /\ tasks[j].deadline.day > DateOf(ret.current_time)

\* C8: among several overdue tasks the one furthest past its deadline is
\* selected; in any other category the one due soonest.
MostOverdueOrSoonest ==
    op = "csp_task" /\ ret.task # 0 =>
        \A i \in Dated :
            CategoryOfDays(DaysLeft(i)) = ret.urgency =>
                DaysLeft(ret.task) <= DaysLeft(i)

\* C9: a deadline on the current calendar date is due today at any time of
\* day (bonus 8, urgency due_today); only a deadline on an earlier date is
\* overdue (bonus 10, urgency overdue).
DeadlineTodayIsDueToday ==
    /\ op = "get_urgency_bonus" /\ tasks[ret.task].deadline.kind = "date" =>
           /\ tasks[ret.task].deadline.day = DateOf(now) => ret.value = 8
           /\ ret.value = 10 => tasks[ret.task].deadline.day < DateOf(now)
    /\ op = "csp_task" /\ ret.task # 0 =>
           /\ tasks[ret.task].deadline.day = DateOf(ret.current_time)
                  => ret.urgency = "due_today"
           /\ ret.urgency = "overdue"
                  => tasks[ret.task].deadline.day < DateOf(ret.current_time)

(***************************************************************************)
(* The multi-objective optimizer (algorithms.py,                           *)
(* multi_objective_optimization).  The code adds three floating-point      *)
(* quotients; the model compares the same sums exactly, each multiplied by *)
(* the positive number 100 * ScoreDen * DurationDen of its call.  Weights  *)
(* are held in tenths.                                                     *)
(***************************************************************************)
\* The number of tasks multi_objective_optimization returns at most
TopCount == 3

RECURSIVE MaxOf(_)
MaxOf(S) == LET x == CHOOSE y \in S : TRUE
            IN  IF S = {x} THEN x ELSE Max(x, MaxOf(S \ {x}))

\* max(t.score for t in tasks) and max(t.duration for t in tasks)
MaxScore(ts) == MaxOf({ts[i].score : i \in 1..Len(ts)})
MaxDuration(ts) == MaxOf({ts[i].duration : i \in 1..Len(ts)})

\* score_norm = task.score / max_score if max_score > 0 else 0, as the
\* fraction ScoreNum / ScoreDen; task.duration / max_duration likewise
ScoreDen(ts) == IF MaxScore(ts) > 0 THEN MaxScore(ts) ELSE 1
ScoreNum(ts, task) == IF MaxScore(ts) > 0 THEN task.score ELSE 0
DurationDen(ts) == IF MaxDuration(ts) > 0 THEN MaxDuration(ts) ELSE 1
DurationNum(ts, task) == IF MaxDuration(ts) > 0 THEN task.duration ELSE 0

\* combined, times 100 * ScoreDen * DurationDen
Combined(ts, task, weights) ==
    10 * weights.score * ScoreNum(ts, task) * DurationDen(ts)
    + 10 * weights.duration * (DurationDen(ts) - DurationNum(ts, task)) * ScoreDen(ts)
    + weights.success * task.success_rate * ScoreDen(ts) * DurationDen(ts)

\* The key of optimized.sort(key=lambda x: x[0], reverse=True): a stable sort
\* by descending combined value
RankKeyAscending(combined) == combined
RankKey(combined) == -combined

\* multi_objective_optimization(tasks, weights)
multi_objective_optimization(ts, weights) ==
    IF ts = <<>> THEN <<>>
    ELSE LET optimized == [i \in 1..Len(ts) |->
                              [key |-> RankKey(Combined(ts, ts[i], weights)),
                               task |-> ts[i]]]
             sorted == StableSort(optimized)
         IN  [k \in 1..Min(TopCount, Len(sorted)) |-> sorted[k].task]

\* weights = {'score': 0.5, 'duration': 0.3, 'success': 0.2}
DefaultWeights == [score |-> 5, duration |-> 3, success |-> 2]

RankWeights ==
    { DefaultWeights,
      [score |-> 0, duration |-> 10, success |-> 0],
      [score |-> 10, duration |-> 0, success |-> -5] }

\* A task as earlier compute_score and mark_attempted calls left it
Scored(name, duration, score, success_rate) ==
    [NewTask(0, name, 5, "work", duration, {"sad"}, NoDate, "general", EmptyDict)
        EXCEPT !.score = score, !.success_rate = success_rate]

RankTasks ==
    { Scored("Rest", 30, 0, 10),
      Scored("Walk", 5, 1, 10),
      Scored("Study", 30, 150, 10),
      Scored("Report", 5, 150, 2),
      Scored("Gym", 60, 215, 7),
      Scored("Call", 30, 215, 10) }

InitRank ==
    /\ tasks \in {PoolOf(ts) : ts \in SeqsUpTo(RankTasks, MaxRankPool)}
    /\ conditions = EmptyDict
    /\ now = At(1, 18, 0)
    /\ op = "init"
    /\ ret = EmptyDict
    /\ CspIdle
    /\ search = NoSearch
    /\ session = NoSession

\* multi_objective_optimization(tasks, weights); weights None is the default
MultiObjectiveOptimization ==
    /\ \E weights \in RankWeights :
          ret' = [weights |-> weights,
                  out |-> multi_objective_optimization(tasks, weights)]
    /\ op' = "multi_objective_optimization"
    /\ UNCHANGED <<tasks, conditions, now, csp, assignment, pc, solo>>
    /\ UNCHANGED <<search, session>>

NextRank == MultiObjectiveOptimization \/ Tick

SpecRank == InitRank /\ [][NextRank]_vars

\* The combined value of the pool's task i under the call's weights,
\* weights.score * score / max_score + weights.duration * (1 - duration /
\* max_duration) + weights.success * success_rate, times 100 * max_score *
\* max_duration; the score term is 0 when no task of the pool has a score
ClaimedCombined(i) ==
    LET ms == MaxOf({tasks[j].score : j \in 1..Len(tasks)})
        md == MaxOf({tasks[j].duration : j \in 1..Len(tasks)})
        w == ret.weights
    IN  IF ms > 0
        THEN 10 * w.score * tasks[i].score * md
             + 10 * w.duration * (md - tasks[i].duration) * ms
             + w.success * tasks[i].success_rate * ms * md
        ELSE 10 * w.duration * (md - tasks[i].duration)
             + w.success * tasks[i].success_rate * md

\* C10: the result holds min(3, pool size) tasks of the pool, no task twice,
\* in order of non-increasing combined value, and no task left out has a
\* larger combined value than a returned one.
TopThreeByCombined ==
    op = "multi_objective_optimization" =>
        LET out == ret.out
            ids == {out[k].id : k \in 1..Len(out)}
        IN  /\ Len(out) = Min(3, Len(tasks))
            /\ \A k \in 1..Len(out) :
                  out[k].id \in 1..Len(tasks) /\ out[k] = tasks[out[k].id]
            /\ Cardinality(ids) = Len(out)
            /\ \A k, l \in 1..Len(out) :
                  k < l => ClaimedCombined(out[k].id) >= ClaimedCombined(out[l].id)
            /\ \A i \in 1..Len(tasks) : \A k \in 1..Len(out) :
                  i \notin ids => ClaimedCombined(i) <= ClaimedCombined(out[k].id)

\* C10's case: a pool of more than three tasks, ranked by the default
\* weights, with a task left out whose combined value is smaller than that of
\* the last task returned
RankLeftOutSmaller ==
    /\ op = "multi_objective_optimization"
    /\ ret.weights = DefaultWeights
    /\ Len(tasks) > 3 /\ Len(ret.out) = 3
    /\ \E i \in 1..Len(tasks) :
          /\ \A k \in 1..3 : ret.out[k].id # i
          /\ ClaimedCombined(i) < ClaimedCombined(ret.out[3].id)
    /\ ClaimedCombined(ret.out[1].id) > ClaimedCombined(ret.out[3].id)

(***************************************************************************)
(* The single-task selectors (algorithms.py: greedy, hill_climbing,        *)
(* stochastic).  A selector returns a task object or None; the model       *)
(* returns the object's id, 0 for None, and the pool as the call leaves    *)
(* it.                                                                     *)
(***************************************************************************)
\* The emotion argument left at its default None (or given as "")
NoEmotion == ""

\* emotion or "neutral"
EmotionOrNeutral(emotion) == IF emotion = NoEmotion THEN "neutral" ELSE emotion

\* setattr(task, name, value)
SetAttr(t, name, value) ==
    [k \in DOMAIN t \cup {name} |-> IF k = name THEN value ELSE t[k]]

\* The ids of the task objects of a list
Ids(ts) == {ts[k].id : k \in 1..Len(ts)}

\* min(ts, key=lambda t: t.score): the position of the first smallest score
FirstMinScore(ts) ==
    CHOOSE k \in 1..Len(ts) :
        /\ \A j \in 1..Len(ts) : ts[j].score >= ts[k].score
        /\ \A j \in 1..(k - 1) : ts[j].score > ts[k].score

\* max(ts, key=lambda t: t.score): the position of the first largest score
FirstMaxScore(ts) ==
    CHOOSE k \in 1..Len(ts) :
        /\ \A j \in 1..Len(ts) : ts[j].score <= ts[k].score
        /\ \A j \in 1..(k - 1) : ts[j].score < ts[k].score

\* greedy's tie-break between a task and the best so far of the same score
TieBreakLonger(task, best_task) ==
    \/ task.base_priority > best_task.base_priority
    \/ /\ task.base_priority = best_task.base_priority
       /\ task.duration > best_task.duration
TieBreak(task, best_task) ==
    \/ task.base_priority > best_task.base_priority
    \/ /\ task.base_priority = best_task.base_priority
       /\ task.duration < best_task.duration

\* greedy's selection loop from position k on; best is the position of
\* best_task in valid_tasks, 0 while best_task is None (best_score -inf)
RECURSIVE GreedyLoop(_, _, _)
GreedyLoop(valid_tasks, k, best) ==
    IF k > Len(valid_tasks) THEN best
    ELSE LET current_score == valid_tasks[k].heuristic_score
             best_score == valid_tasks[best].heuristic_score
         IN  CHOOSE last \in
                 { GreedyLoop(valid_tasks, k + 1, next) :
                     next \in { IF best = 0 THEN k
                                ELSE IF current_score > best_score THEN k
                                ELSE IF /\ current_score = best_score
                                        /\ TieBreak(valid_tasks[k], valid_tasks[best])
                                     THEN k
                                ELSE best } } : TRUE

\* greedy's scoring loop: every task of valid_tasks (ids valid) gets its
\* score and heuristic_score
GreedyScored(ts, valid, emotion, current_conditions, clock) ==
    LET current_time == Get(current_conditions, "current_time", clock)
        current_energy == Get(current_conditions, "current_energy", 5)
        preference_bonus == Get(current_conditions, "preference_bonus", 0)
        urgency_bonus == Get(current_conditions, "urgency_bonus", 0)
        scored(task) ==
            LET value == compute_score(task, EmotionOrNeutral(emotion),
                                       current_time, current_energy,
                                       preference_bonus, urgency_bonus, clock)
            IN  SetAttr([task EXCEPT !.score = value], "heuristic_score", value)
    IN  [i \in DOMAIN ts |-> IF ts[i].id \in valid THEN scored(ts[i]) ELSE ts[i]]

\* greedy's selection among valid_tasks (ids valid, not empty): the pool as
\* the scoring loop leaves it and the id of best_task
GreedyAmong(ts, valid, emotion, current_conditions, clock) ==
    CHOOSE result \in
        { [tasks |-> after,
           best_task |->
               SelectSeq(after, LAMBDA task : task.id \in valid)
                   [GreedyLoop(SelectSeq(after, LAMBDA task : task.id \in valid), 1, 0)].id] :
            after \in { GreedyScored(ts, valid, emotion, current_conditions, clock) } } :
        TRUE

\* greedy(tasks, emotion, current_conditions)
greedy(ts, emotion, current_conditions, clock) ==
    IF ts = <<>> THEN [tasks |-> ts, best_task |-> 0]
    ELSE CHOOSE result \in
             { IF valid = {} THEN [tasks |-> ts, best_task |-> 0]
               ELSE GreedyAmong(ts, valid, emotion, current_conditions, clock) :
                 valid \in { Ids(apply_strict_constraints(ts, current_conditions,
                                                          EmotionOrNeutral(emotion),
                                                          clock)) } } : TRUE

\* calculate_task_similarity as the fraction SimilarityNum / SimilarityDen:
\* both are the code's similarity and factors times 10 * emotion_total *
\* max(duration), which clears every denominator of the code's quotients
SimilarityScale(task1, task2) ==
    LET emotion_total == Cardinality(task1.emotion_fit \cup task2.emotion_fit)
        both == task1.duration > 0 /\ task2.duration > 0
    IN  10 * (IF emotion_total > 0 THEN emotion_total ELSE 1)
           * (IF both THEN Max(task1.duration, task2.duration) ELSE 1)

SimilarityNum(task1, task2) ==
    LET emotion_overlap == Cardinality(task1.emotion_fit \cap task2.emotion_fit)
        emotion_total == Cardinality(task1.emotion_fit \cup task2.emotion_fit)
        both == task1.duration > 0 /\ task2.duration > 0
        scale == SimilarityScale(task1, task2)
        priority_diff == Abs(task1.base_priority - task2.base_priority)
    IN  (IF emotion_total > 0 THEN (2 * emotion_overlap * scale) \div emotion_total
         ELSE 0)
        + (IF both
           THEN (Min(task1.duration, task2.duration) * scale)
                    \div Max(task1.duration, task2.duration)
           ELSE 0)
        + ((10 - priority_diff) * scale) \div 10
        + (IF task1.task_type = task2.task_type THEN scale ELSE 0)
        + (IF task1.category = task2.category THEN scale ELSE 0)

SimilarityDen(task1, task2) ==
    LET emotion_total == Cardinality(task1.emotion_fit \cup task2.emotion_fit)
        both == task1.duration > 0 /\ task2.duration > 0
        factors == (IF emotion_total > 0 THEN 2 ELSE 0) + (IF both THEN 1 ELSE 0) + 3
    IN  factors * SimilarityScale(task1, task2)

\* similarity >= 0.6
IsNeighbor(current_best, task) ==
    10 * SimilarityNum(current_best, task) >= 6 * SimilarityDen(current_best, task)

\* hill_climbing's loop with `left` iterations to go: the ids of the tasks
\* current_best has been, the last being the one returned
RECURSIVE ClimbLoop(_, _, _)
ClimbLoop(ts, path, left) ==
    LET current_best == ts[path[Len(path)]]
        neighbors == SelectSeq(ts, LAMBDA task :
                         task.id # current_best.id /\ IsNeighbor(current_best, task))
        best_neighbor == neighbors[FirstMaxScore(neighbors)]
    IN  IF left = 0 THEN path
        ELSE IF neighbors = <<>> THEN path
        ELSE IF best_neighbor.score > current_best.score
             THEN ClimbLoop(ts, Append(path, best_neighbor.id), left - 1)
        ELSE path

\* hill_climbing(tasks, current_conditions, max_iterations)
hill_climbing(ts, current_conditions, max_iterations, clock) ==
    LET current_emotion == Get(current_conditions, "current_emotion", "neutral")
        current_energy == Get(current_conditions, "current_energy", 5)
        valid == Ids(apply_strict_constraints(ts, current_conditions,
                                              current_emotion, clock))
        scored(task) ==
            [task EXCEPT !.score = compute_score(task, current_emotion, clock,
                                                 current_energy, 0, 0, clock)]
        after == [i \in DOMAIN ts |-> IF ts[i].id \in valid THEN scored(ts[i])
                                      ELSE ts[i]]
        valid_tasks == SelectSeq(after, LAMBDA task : task.id \in valid)
        start == valid_tasks[FirstMaxScore(valid_tasks)].id
        path == ClimbLoop(after, <<start>>, max_iterations)
    IN  IF ts = <<>> THEN [tasks |-> ts, path |-> <<>>, current_best |-> 0]
        ELSE IF valid = {} THEN [tasks |-> ts, path |-> <<>>, current_best |-> 0]
        ELSE [tasks |-> after, path |-> path, current_best |-> path[Len(path)]]

\* random.choice over the whole input list
StochasticUnfiltered(ts, emotion, current_conditions, clock) ==
    IF ts = <<>> THEN {0} ELSE Ids(ts)

\* stochastic(tasks, emotion, current_conditions): the tasks it can return,
\* each by its id, 0 for None
stochastic(ts, emotion, current_conditions, clock) ==
    LET valid_tasks == apply_strict_constraints(ts, current_conditions,
                                                EmotionOrNeutral(emotion), clock)
    IN  IF ts = <<>> THEN {0}
        ELSE IF valid_tasks = <<>> THEN {0}
        ELSE IF Len(valid_tasks) = 1 THEN {valid_tasks[1].id}
        ELSE Ids(valid_tasks)

\* greedy(tasks, emotion, conditions)
Greedy ==
    /\ pc = "idle"
    /\ \E emotion \in {"sad", "happy", NoEmotion} :
          LET result == greedy(tasks, emotion, conditions, now)
          IN  /\ tasks' = result.tasks
              /\ ret' = [emotion |-> emotion, best_task |-> result.best_task]
    /\ op' = "greedy"
    /\ UNCHANGED <<conditions, now, csp, assignment, pc, solo>>
    /\ UNCHANGED <<search, session>>

\* hill_climbing(tasks, conditions, max_iterations)
HillClimbing ==
    /\ pc = "idle"
    /\ \E max_iterations \in {0, 1, 5} :
          LET result == hill_climbing(tasks, conditions, max_iterations, now)
          IN  /\ tasks' = result.tasks
              /\ ret' = [max_iterations |-> max_iterations, path |-> result.path,
                         current_best |-> result.current_best]
    /\ op' = "hill_climbing"
    /\ UNCHANGED <<conditions, now, csp, assignment, pc, solo>>
    /\ UNCHANGED <<search, session>>

\* stochastic(tasks, emotion, conditions)
Stochastic ==
    /\ pc = "idle"
    /\ \E emotion \in {"sad", "happy", NoEmotion} :
          \E chosen \in stochastic(tasks, emotion, conditions, now) :
              ret' = [emotion |-> emotion, chosen |-> chosen]
    /\ op' = "stochastic"
    /\ UNCHANGED <<tasks, conditions, now, csp, assignment, pc, solo>>
    /\ UNCHANGED <<search, session>>

SelectTasks ==
    { NewTask(0, "Walk", 9, "mood", 10, {"sad"}, NoDate, "general", EmptyDict),
      NewTask(0, "Tidy", 4, "mood", 10, {"sad"}, NoDate, "must_do", EmptyDict),
      NewTask(0, "Read", 9, "mood", 5, {"sad", "neutral"}, NoDate, "general", EmptyDict),
      NewTask(0, "Dance", 10, "mood", 10, {"happy"}, NoDate, "general", EmptyDict),
      NewTask(0, "Sing", 10, "mood", 10, {"happy"}, NoDate, "mood_changer", EmptyDict),
      NewTask(0, "Report", 8, "work", 30, {"happy"}, NoDate, "must_do",
              [requires |-> [list |-> FALSE, items |-> <<"outdoors">>]]) }

SelectConditions ==
    { EmptyDict,
      [current_emotion |-> "sad"],
      [current_emotion |-> "sad", current_energy |-> 8,
       current_time |-> At(1, 10, 30), available_resources |-> {"outdoors"}] }

InitSelect ==
    /\ tasks \in {PoolOf(ts) : ts \in SeqsUpTo(SelectTasks, MaxSelectPool)}
    /\ conditions \in SelectConditions
    /\ now = At(1, 18, 0)
    /\ op = "init"
    /\ ret = EmptyDict
    /\ CspIdle
    /\ search = NoSearch
    /\ session = NoSession

NextSelect == Greedy \/ HillClimbing \/ Stochastic

SpecSelect == InitSelect /\ [][NextSelect]_vars

\* The ids of the pool's tasks that pass the strict filter for an emotion
FilterIds(emotion) == Ids(apply_strict_constraints(tasks, conditions, emotion, now))

\* The emotion hill_climbing reads from the conditions
ConditionsEmotion == Get(conditions, "current_emotion", "neutral")

\* C11: hill_climbing starts at a best-scoring strictly-filtered task, the
\* score of current_best strictly increases on every move (each to a
\* neighbour), so the returned task scores no lower than the start; the loop
\* ends after max_iterations iterations or at the first iteration without a
\* strictly better neighbour.
HillClimbingClimbs ==
    op = "hill_climbing" /\ ret.current_best # 0 =>
        LET path == ret.path
            moves == Len(path) - 1
            last == tasks[ret.current_best]
        IN  /\ Len(path) >= 1
            /\ path[1] \in FilterIds(ConditionsEmotion)
            /\ \A i \in FilterIds(ConditionsEmotion) :
                  tasks[i].score <= tasks[path[1]].score
            /\ \A k \in 1..moves :
                  /\ tasks[path[k + 1]].score > tasks[path[k]].score
                  /\ IsNeighbor(tasks[path[k]], tasks[path[k + 1]])
            /\ path[Len(path)] = ret.current_best
            /\ last.score >= tasks[path[1]].score
            /\ moves <= ret.max_iterations
            /\ \/ moves = ret.max_iterations
               \/ \A i \in 1..Len(tasks) :
                     i # ret.current_best /\ IsNeighbor(last, tasks[i])
                         => tasks[i].score <= last.score

\* C11's case: a call with iterations to spare that moved twice and stopped
\* at a task with a neighbour, none strictly better
HillClimbingMovedTwice ==
    /\ op = "hill_climbing"
    /\ ret.max_iterations = 5
    /\ Len(ret.path) = 3
    /\ \E i \in 1..Len(tasks) :
          i # ret.current_best /\ IsNeighbor(tasks[ret.current_best], tasks[i])

\* C12: what hill_climbing returns is None or a task of the strict filter's
\* output for the call's pool, conditions and emotion, whatever the score
\* fields held before the call.
HillClimbingReturnsFiltered ==
    op = "hill_climbing" =>
        ret.current_best = 0 \/ ret.current_best \in FilterIds(ConditionsEmotion)

\* The score greedy computes for the pool's task i in a call for emotion
GreedyScore(i, emotion) ==
    compute_score(tasks[i], emotion, ConditionsTime,
                  Get(conditions, "current_energy", 5),
                  Get(conditions, "preference_bonus", 0),
                  Get(conditions, "urgency_bonus", 0), now)

\* C13: greedy returns a strictly-filtered task of maximal compute_score; of
\* the filtered tasks of that score it has the highest base_priority and, of
\* those, the shortest duration; this for every order of the pool.
GreedyPicksBest ==
    op = "greedy" =>
        LET emotion == EmotionOrNeutral(ret.emotion)
            valid == FilterIds(emotion)
            b == ret.best_task
        IN  IF valid = {} THEN b = 0
            ELSE /\ b \in valid
                 /\ tasks[b].score = GreedyScore(b, emotion)
                 /\ \A i \in valid :
                       /\ GreedyScore(i, emotion) <= GreedyScore(b, emotion)
                       /\ GreedyScore(i, emotion) = GreedyScore(b, emotion) =>
                             /\ tasks[i].base_priority <= tasks[b].base_priority
                             /\ tasks[i].base_priority = tasks[b].base_priority
                                    => tasks[b].duration <= tasks[i].duration

\* C13's case: the returned task tied on the score with an earlier task of
\* lower priority and with a later task of the same priority that takes longer
GreedyTieBrokenTwice ==
    /\ op = "greedy"
    /\ ret.best_task # 0
    /\ LET emotion == EmotionOrNeutral(ret.emotion)
           valid == FilterIds(emotion)
           b == ret.best_task
       IN  /\ \E i \in valid :
                 /\ i < b
                 /\ GreedyScore(i, emotion) = GreedyScore(b, emotion)
                 /\ tasks[i].base_priority < tasks[b].base_priority
           /\ \E j \in valid :
                 /\ j # b
                 /\ GreedyScore(j, emotion) = GreedyScore(b, emotion)
                 /\ tasks[j].base_priority = tasks[b].base_priority
                 /\ tasks[j].duration > tasks[b].duration

(***************************************************************************)
(* The sequence planner (algorithms.py, mini_a_star).                      *)
(* search holds the locals of the running call.  A Node is [sequence,      *)
(* emotion_after, g, h]: sequence is node.sequence() as task ids, so the   *)
(* node's task is its last element, its depth its length and its parent    *)
(* the node of the sequence less that element.  g, h and f are in tenths.  *)
(* The heap orders nodes by (f, id(node)); id(node) is an address, so      *)
(* among nodes of equal f any one may be popped first.                     *)
(* constraints["allowed_time"] is [dict, start, end, optimal]: dict tells  *)
(* whether the value is a dict at all, the other keys are optional.        *)
(***************************************************************************)
\* The nested g_score: the cost of a task under an emotion
g_score(task, emotion, is_first, fatigue_score, clock) ==
    LET allowed == task.constraints.allowed_time
        outside == /\ "allowed_time" \in DOMAIN task.constraints
                   /\ allowed.dict
                   /\ ~(/\ Get(allowed, "start", 0) <= Hour(clock)
                        /\ Hour(clock) < Get(allowed, "end", 24))
        cost == 10 * (10 - task.base_priority)
                + (IF emotion \notin task.emotion_fit THEN 50 ELSE 0)
                + fatigue_score * 5
                - (IF is_first THEN 20 ELSE 0)
                + (IF task.task_type = "preference"
                   THEN (IF emotion \in task.emotion_fit THEN -30 ELSE 0)
                        + (IF outside THEN 50 ELSE 0)
                   ELSE 0)
    IN  Max(0, cost)

\* The value compute_score gives a task inside the nested h_score
HeuristicValue(task, predicted_emotion, fatigue_score, clock) ==
    compute_score(task, predicted_emotion, clock, 10 - fatigue_score, 0, 0, clock)

\* The nested h_score: 50 - heuristic_value
h_score(task, predicted_emotion, fatigue_score, clock) ==
    500 - HeuristicValue(task, predicted_emotion, fatigue_score, clock)

\* The nested predict_next_emotion
predict_next_emotion(task, emotion) ==
    IF task.category \in {"break", "personal", "life", "mood_enhancer", "user_preference"}
    THEN IF emotion \in {"sad", "angry", "tired", "stressed"} THEN "neutral"
         ELSE IF emotion \in {"neutral", "happy"} THEN "happy"
         ELSE emotion
    ELSE IF task.category \in {"academic", "work", "todo_must"}
    THEN IF emotion \in {"neutral", "focused"} THEN "focused"
         ELSE IF emotion \in {"sad", "angry", "tired"} THEN "tired"
         ELSE emotion
    ELSE IF emotion \in {"sad", "angry", "tired"} THEN "neutral"
    ELSE emotion

\* Node.f
NodeF(node) == node.g + node.h

\* valid_pool as it is, a task of a repeated name kept
KeepRepeatedNames(valid_pool) == [k \in DOMAIN valid_pool |-> valid_pool[k].id]

\* The unique_tasks dict: the ids of the first task of every name, in the
\* order of valid_pool
UniqueByName(valid_pool) ==
    LET first == SelectSeq([k \in DOMAIN valid_pool |-> k], LAMBDA k :
                     \A j \in 1..(k - 1) : valid_pool[j].name # valid_pool[k].name)
    IN  [k \in DOMAIN first |-> valid_pool[first[k]].id]

\* fatigue_score
FatigueScore(current_conditions) ==
    IF current_conditions = EmptyDict THEN 0
    ELSE 10 - Get(current_conditions, "current_energy", 5)

\* The test without `if next_task in node.sequence(): continue`
ExtendsRepeating(node, next_task) ==
    \/ node.emotion_after \in next_task.emotion_fit
    \/ next_task.task_type = "must_do" /\ next_task.base_priority >= 7

\* The test the search loop makes before it extends a node by next_task
Extends(node, next_task) ==
    /\ next_task.id \notin Range(node.sequence)
    /\ \/ node.emotion_after \in next_task.emotion_fit
       \/ next_task.task_type = "must_do" /\ next_task.base_priority >= 7

\* The nodes the search loop pushes for a popped node that is not complete
NewNodes(frame, node, ts, clock) ==
    { [sequence |-> Append(node.sequence, i),
       emotion_after |-> predict_next_emotion(ts[i], node.emotion_after),
       g |-> node.g + g_score(ts[i], node.emotion_after, FALSE,
                              frame.fatigue_score, clock),
       h |-> h_score(ts[i], predict_next_emotion(ts[i], node.emotion_after),
                     frame.fatigue_score, clock)] :
        i \in {j \in Range(frame.all_tasks) : Extends(node, ts[j])} }

\* The pool after h_score has scored every task the popped node is extended by
ScoredByNode(frame, node, ts, clock) ==
    [i \in DOMAIN ts |->
        IF i \in Range(frame.all_tasks) /\ Extends(node, ts[i])
        THEN [ts[i] EXCEPT !.score =
                 HeuristicValue(ts[i], predict_next_emotion(ts[i], node.emotion_after),
                                frame.fatigue_score, clock)]
        ELSE ts[i]]

\* A call that leaves its working list (filtered, sorted) in the caller's list
WorkingListKept(ts, updated) == updated

\* The pool with the task objects of a list put back at their ids
MergeById(ts, updated) ==
    [i \in DOMAIN ts |->
        IF \E k \in 1..Len(updated) : updated[k].id = i
        THEN updated[CHOOSE k \in 1..Len(updated) : updated[k].id = i]
        ELSE ts[i]]

\* What follows the search loop: the best sequence, or greedy's single task
SearchReturn(frame, best, ts, clock) ==
    IF best.found /\ Len(best.sequence) >= 2
    THEN [tasks |-> ts,
          sequence |-> SubSeq(best.sequence, 1,
                              Min(frame.max_sequence_length, Len(best.sequence)))]
    ELSE CHOOSE result \in
             { [tasks |-> MergeById(ts, fallback.tasks),
                sequence |-> IF fallback.best_task # 0 THEN <<fallback.best_task>>
                             ELSE <<>>] :
                 fallback \in
                     { greedy([k \in DOMAIN frame.all_tasks |-> ts[frame.all_tasks[k]]],
                              frame.current_emotion, EmptyDict, clock) } } : TRUE

\* max_sequence_length: the default 3 and the shorter lengths
SequenceLengths == {1, 2, 3}
\* The emotions the planner is called with
PlanEmotions == {"sad", "happy", "stressed"}

\* mini_a_star(tasks[:split], current_emotion, conditions, max_sequence_length,
\* tasks[split:]) is called: everything up to the search loop
MiniAStar ==
    /\ pc = "idle"
    /\ \E current_emotion \in PlanEmotions, max_sequence_length \in SequenceLengths,
          split \in 0..Min(1, Len(tasks)) :
          LET pool == SubSeq(tasks, 1, split) \o SubSeq(tasks, split + 1, Len(tasks))
              valid_pool == apply_strict_constraints(pool, conditions,
                                                     current_emotion, now)
              all_tasks == UniqueByName(valid_pool)
              fatigue_score == FatigueScore(conditions)
              args == [emotion |-> current_emotion, split |-> split,
                       max_sequence_length |-> max_sequence_length]
              first(i) ==
                  [sequence |-> <<i>>,
                   emotion_after |-> predict_next_emotion(tasks[i], current_emotion),
                   g |-> g_score(tasks[i], current_emotion, TRUE, fatigue_score, now),
                   h |-> h_score(tasks[i],
                                 predict_next_emotion(tasks[i], current_emotion),
                                 fatigue_score, now)]
          IN  IF pool = <<>> \/ valid_pool = <<>>
              THEN /\ ret' = args @@ [state |-> "returned", sequence |-> <<>>]
                   /\ UNCHANGED <<tasks, pc, search>>
              ELSE /\ tasks' = [i \in DOMAIN tasks |->
                                   IF i \in Range(all_tasks)
                                   THEN [tasks[i] EXCEPT !.score =
                                            HeuristicValue(tasks[i],
                                                predict_next_emotion(tasks[i], current_emotion),
                                                fatigue_score, now)]
                                   ELSE tasks[i]]
                   /\ search' = [current_emotion |-> current_emotion,
                                 max_sequence_length |-> max_sequence_length,
                                 all_tasks |-> all_tasks,
                                 fatigue_score |-> fatigue_score,
                                 open_set |-> {first(i) : i \in Range(all_tasks)},
                                 best |-> [found |-> FALSE, score |-> 0,
                                           sequence |-> <<>>]]
                   /\ pc' = "search"
                   /\ ret' = args @@ [state |-> "running"]
    /\ op' = "mini_a_star"
    /\ UNCHANGED <<conditions, now, csp, assignment, solo, session>>

\* The body of one iteration of the search loop for the popped node: the best
\* sequence, the open set and the pool after it
PoppedNode(frame, node, ts, clock) ==
    LET complete == Len(node.sequence) >= frame.max_sequence_length
    IN  [best |-> IF /\ complete
                     /\ (~frame.best.found \/ NodeF(node) < frame.best.score)
                  THEN [found |-> TRUE, score |-> NodeF(node),
                        sequence |-> node.sequence]
                  ELSE frame.best,
         open_set |-> (frame.open_set \ {node})
                      \cup IF complete THEN {}
                           ELSE NewNodes(frame, node, ts, clock),
         scored |-> IF complete THEN ts
                    ELSE ScoredByNode(frame, node, ts, clock)]

\* One iteration of the search loop: a node of least f is popped and either
\* compared with the best sequence or extended; the iteration that empties
\* the open set ends the loop and the call returns
SearchLoop ==
    /\ pc = "search"
    /\ \E node \in search.open_set :
          /\ \A other \in search.open_set : NodeF(node) <= NodeF(other)
          /\ \E popped \in {PoppedNode(search, node, tasks, now)} :
                IF popped.open_set # {}
                THEN /\ search' = [search EXCEPT !.open_set = popped.open_set,
                                                 !.best = popped.best]
                     /\ tasks' = popped.scored
                     /\ UNCHANGED <<pc, ret>>
                ELSE \E result \in {SearchReturn(search, popped.best,
                                                 popped.scored, now)} :
                        /\ search' = NoSearch
                        /\ tasks' = result.tasks
                        /\ pc' = "idle"
                        /\ ret' = [ret EXCEPT !.state = "returned"]
                                  @@ [sequence |-> result.sequence]
    /\ UNCHANGED <<conditions, now, op, csp, assignment, solo, session>>

PlanTasks ==
    { NewTask(0, "Walk", 5, "break", 30, {"sad", "neutral"}, NoDate, "general", EmptyDict),
      NewTask(0, "Report", 8, "work", 30, {"happy"}, NoDate, "must_do", EmptyDict),
      NewTask(0, "Walk", 6, "user_preference", 30, {"sad"}, NoDate, "preference",
              [allowed_time |-> [dict |-> TRUE, start |-> 9, end |-> 17]]),
      NewTask(0, "Study", 6, "academic", 30, {"sad", "neutral", "focused"}, NoDate, "general",
              [requires |-> [list |-> FALSE, items |-> <<"internet">>]]) }

PlanConditions ==
    { EmptyDict,
      [current_energy |-> 8, available_resources |-> {"internet"}] }

InitPlan ==
    /\ tasks \in {PoolOf(ts) : ts \in SeqsUpTo(PlanTasks, MaxPlanPool)}
    /\ conditions \in PlanConditions
    /\ now = At(1, 18, 0)
    /\ op = "init"
    /\ ret = EmptyDict
    /\ CspIdle
    /\ search = NoSearch
    /\ session = NoSession

NextPlan == MiniAStar \/ SearchLoop

SpecPlan == InitPlan /\ [][NextPlan]_vars

\* A mini_a_star call has returned
PlanReturned == op = "mini_a_star" /\ ret.state = "returned"

\* C15: a sequence mini_a_star returns is no longer than max_sequence_length
\* and holds no task name twice, also when the supplied tasks and the user
\* preferences hold tasks of one name.
PlanSequenceDistinctNames ==
    PlanReturned =>
        /\ Len(ret.sequence) <= ret.max_sequence_length
        /\ \A k, l \in 1..Len(ret.sequence) :
              k < l => tasks[ret.sequence[k]].name # tasks[ret.sequence[l]].name

\* C15's case: a sequence of the full length was returned, one of its tasks
\* supplied in tasks and a task of the same name in user_preferences
PlanFullSequenceWithNamesake ==
    /\ PlanReturned
    /\ ret.max_sequence_length >= 2
    /\ Len(ret.sequence) = ret.max_sequence_length
    /\ \E k \in 1..Len(ret.sequence) : \E i \in 1..Len(tasks) :
          /\ ret.sequence[k] <= ret.split
          /\ i > ret.split
          /\ tasks[i].name = tasks[ret.sequence[k]].name

\* The filtered pool of the call, one task per name
PlanPool == UniqueByName(apply_strict_constraints(tasks, conditions, ret.emotion, now))

\* C16: when max_sequence_length is 2 or more and the filtered, de-duplicated
\* pool holds distinct tasks A and B, B admitting the emotion predicted after
\* A (or being must_do of priority 7 or more), the returned sequence has at
\* least 2 tasks, also when the pool has fewer tasks than max_sequence_length.
PlanFindsSequence ==
    /\ PlanReturned
    /\ ret.max_sequence_length >= 2
    /\ \E a, b \in Range(PlanPool) :
          /\ a # b
          /\ \/ predict_next_emotion(tasks[a], ret.emotion) \in tasks[b].emotion_fit
             \/ tasks[b].task_type = "must_do" /\ tasks[b].base_priority >= 7
    => Len(ret.sequence) >= 2

(***************************************************************************)
(* The strategies side by side on one pool: greedy, hill_climbing,         *)
(* stochastic, mini_a_star, csp_filter and multi_objective_optimization.   *)
(***************************************************************************)
EngineTasks ==
    { NewTask(0, "Walk", 5, "break", 30, {"sad", "neutral"}, NoDate, "general", EmptyDict),
      NewTask(0, "Report", 8, "work", 30, {"happy"}, NoDate, "must_do", EmptyDict),
      NewTask(0, "Gym", 6, "life", 30, {"sad"}, NoDate, "general",
              [requires |-> [list |-> FALSE, items |-> <<"outdoors">>]]),
      NewTask(0, "Gym", 4, "life", 45, {"happy"}, NoDate, "general",
              [requires |-> [list |-> TRUE, items |-> <<"outdoors", "music">>]]) }

EngineConditions ==
    { EmptyDict,
      [current_emotion |-> "sad", available_resources |-> {"outdoors"}] }

InitEngine ==
    /\ tasks \in {PoolOf(ts) : ts \in SeqsUpTo(EngineTasks, MaxEnginePool)}
    /\ conditions \in EngineConditions
    /\ now = At(1, 18, 0)
    /\ op = "init"
    /\ ret = EmptyDict
    /\ CspIdle
    /\ search = NoSearch
    /\ session = NoSession

\* Every task of the pool is as Task.__init__ left it: no call has scored it
PoolFresh ==
    \A i \in 1..Len(tasks) :
        tasks[i].score = 0 /\ "heuristic_score" \notin DOMAIN tasks[i]

\* The strategies are each called on the pool as it was built, one call at a
\* time; what a strategy makes of the scores an earlier call left is the
\* matter of the selector and planner specifications
NextEngine ==
    \/ (PoolFresh /\ Greedy)
    \/ (PoolFresh /\ HillClimbing)
    \/ (PoolFresh /\ Stochastic)
    \/ (PoolFresh /\ MiniAStar)
    \/ SearchLoop
    \/ (PoolFresh /\ CspFilter)
    \/ Backtrack
    \/ (PoolFresh /\ pc = "idle" /\ MultiObjectiveOptimization)

SpecEngine == InitEngine /\ [][NextEngine]_vars

\* C14: what greedy and stochastic return, and every element of a sequence
\* mini_a_star returns, is in the strict filter's output for the call's
\* pool, emotion and conditions; with one task surviving the filter,
\* stochastic returns that task.
StrategiesReturnFiltered ==
    /\ op = "greedy" =>
           ret.best_task = 0
               \/ ret.best_task \in FilterIds(EmotionOrNeutral(ret.emotion))
    /\ op = "stochastic" =>
           /\ ret.chosen = 0
                  \/ ret.chosen \in FilterIds(EmotionOrNeutral(ret.emotion))
           /\ Cardinality(FilterIds(EmotionOrNeutral(ret.emotion))) = 1
                  => ret.chosen \in FilterIds(EmotionOrNeutral(ret.emotion))
    /\ PlanReturned =>
           \A k \in 1..Len(ret.sequence) : ret.sequence[k] \in FilterIds(ret.emotion)

\* C14's case: stochastic returned the one task that survives the filter, of
\* a pool that holds more tasks
StochasticSoleCandidate ==
    /\ op = "stochastic"
    /\ Len(tasks) >= 2
    /\ FilterIds(EmotionOrNeutral(ret.emotion)) = {ret.chosen}

\* C17: with an empty pool, or a pool of which no task passes the strict
\* filter, no strategy raises: greedy, hill_climbing and stochastic return
\* None, mini_a_star and multi_objective_optimization an empty list,
\* csp_filter an empty list of recommendations.
NoCandidateGivesSentinel ==
    /\ op = "greedy" /\ FilterIds(EmotionOrNeutral(ret.emotion)) = {}
           => ret.best_task = 0
    /\ op = "hill_climbing" /\ FilterIds(ConditionsEmotion) = {}
           => ret.current_best = 0
    /\ op = "stochastic" /\ FilterIds(EmotionOrNeutral(ret.emotion)) = {}
           => ret.chosen = 0
    /\ op = "mini_a_star" /\ pc = "idle" /\ FilterIds(ret.emotion) = {}
           => ret.state = "returned" /\ ret.sequence = <<>>
    /\ CspEnded /\ ret.sub = 0 /\ FilterIds(ret.emotion) = {}
           => ret.state = "returned" /\ ret.out = <<>>
    /\ op = "multi_objective_optimization" /\ tasks = <<>>
           => ret.out = <<>>

(***************************************************************************)
(* The preference ranking (algorithms.py, csp_preferences).                *)
(* heuristic_score is in tenths, fitness_score in hundredths.              *)
(***************************************************************************)
\* constraints["allowed_time"] when it is a dict, else nothing to go by
HasWindow(task) ==
    "allowed_time" \in DOMAIN task.constraints /\ task.constraints.allowed_time.dict
WindowStart(task) == Get(task.constraints.allowed_time, "start", 0)
WindowEnd(task) == Get(task.constraints.allowed_time, "end", 24)

\* Step 1 without the resource check
PrefResourceIgnored(task, available_resources) == TRUE

\* Step 1, resource_valid
PrefResourceValid(task, available_resources) ==
    ~( /\ "requires" \in DOMAIN task.constraints
       /\ ResourceMissing(task.constraints.requires, available_resources) )

\* Step 1, time_valid
PrefTimeValid(task, current_hour) ==
    LET pref == task.constraints.preferred_time
    IN  /\ HasWindow(task) =>
               WindowStart(task) <= current_hour /\ current_hour < WindowEnd(task)
        /\ "preferred_time" \in DOMAIN task.constraints =>
               IF pref = "morning" THEN 6 <= current_hour /\ current_hour < 12
               ELSE IF pref = "afternoon" THEN 12 <= current_hour /\ current_hour < 17
               ELSE IF pref = "evening" THEN 17 <= current_hour /\ current_hour < 22
               ELSE IF pref = "daylight" THEN 7 <= current_hour /\ current_hour < 18
               ELSE IF pref = "night" THEN 19 <= current_hour \/ current_hour < 5
               ELSE TRUE

\* Step 1, the reasons a task is excluded for, in the order they are appended
PrefReasons(task, current_conditions, clock) ==
    LET current_hour == Hour(Get(current_conditions, "current_time", clock))
        available_resources == Get(current_conditions, "available_resources", {})
        current_emotion == Get(current_conditions, "current_emotion", "neutral")
    IN  (IF PrefResourceValid(task, available_resources) THEN <<>>
         ELSE <<"Resource constraint">>)
        \o (IF PrefTimeValid(task, current_hour) THEN <<>>
            ELSE <<"Time constraint">>)
        \o (IF current_emotion \in task.emotion_fit THEN <<>>
            ELSE <<"Emotion mismatch">>)

\* Step 2, mrv_score
MrvScore(task) ==
    (IF HasWindow(task) THEN WindowEnd(task) - WindowStart(task) ELSE 0)
    + (IF "requires" \in DOMAIN task.constraints
       THEN IF task.constraints.requires.list
            THEN 10 - Len(task.constraints.requires.items)
            ELSE 9
       ELSE 0)
    + Cardinality(task.emotion_fit)

\* Step 3, what other_task adds to the degree of task
SharedConstraints(task, other_task) ==
    LET task_req == task.constraints.requires
        other_req == other_task.constraints.requires
        common == Range(task_req.items) \cap Range(other_req.items)
    IN  (IF /\ HasWindow(task) /\ HasWindow(other_task)
            /\ ~(\/ WindowEnd(task) <= WindowStart(other_task)
                 \/ WindowStart(task) >= WindowEnd(other_task))
         THEN 1 ELSE 0)
        + (IF /\ "requires" \in DOMAIN task.constraints
              /\ "requires" \in DOMAIN other_task.constraints
           THEN IF task_req.list /\ other_req.list THEN Cardinality(common)
                ELSE IF task_req = other_req THEN 1
                ELSE 0
           ELSE 0)

\* The sum of a list of numbers
RECURSIVE SumSeq(_)
SumSeq(s) == IF s = <<>> THEN 0 ELSE s[1] + SumSeq(Tail(s))

\* Step 3, degree_score
DegreeScore(task, valid_tasks) ==
    SumSeq([k \in DOMAIN valid_tasks |->
               IF valid_tasks[k].id = task.id THEN 0
               ELSE SharedConstraints(task, valid_tasks[k])])

\* list.sort(key=..., reverse=...) with keys[k] the key of ts[k]; the sort
\* keeps the order of equal keys either way
SortBy(ts, keys, reverse) ==
    LET keyed == [k \in DOMAIN ts |->
                     [key |-> IF reverse THEN -keys[k] ELSE keys[k],
                      task |-> ts[k]]]
        sorted == StableSort(keyed)
    IN  [k \in DOMAIN sorted |-> sorted[k].task]

\* Step 4, heuristic_score in tenths: 0.6 * mrv_norm + 0.4 * dh_norm
HeuristicScore(task) ==
    6 * (10 - Get(task, "mrv_score", 5)) + 4 * Get(task, "degree_score", 0)

\* Step 2: mrv_score written to every valid task
WithMrv(valid_tasks) ==
    [k \in DOMAIN valid_tasks |->
        SetAttr(valid_tasks[k], "mrv_score", MrvScore(valid_tasks[k]))]

\* Step 3: degree_score written to every valid task
WithDegree(valid_tasks) ==
    [k \in DOMAIN valid_tasks |->
        SetAttr(valid_tasks[k], "degree_score", DegreeScore(valid_tasks[k], valid_tasks))]

\* Step 4 with both heuristics: heuristic_score written, then the sort by it
SortByHeuristic(valid_tasks) ==
    LET with_h == [k \in DOMAIN valid_tasks |->
                      SetAttr(valid_tasks[k], "heuristic_score",
                              HeuristicScore(valid_tasks[k]))]
    IN  SortBy(with_h, [k \in DOMAIN with_h |-> with_h[k].heuristic_score], TRUE)

\* Step 4: the sort of valid_tasks
PrefSort(valid_tasks, use_mrv, use_dh) ==
    IF use_mrv /\ use_dh THEN SortByHeuristic(valid_tasks)
    ELSE IF use_mrv
    THEN SortBy(valid_tasks,
                [k \in DOMAIN valid_tasks |-> Get(valid_tasks[k], "mrv_score", 0)], FALSE)
    ELSE IF use_dh
    THEN SortBy(valid_tasks,
                [k \in DOMAIN valid_tasks |-> Get(valid_tasks[k], "degree_score", 0)], TRUE)
    ELSE valid_tasks

\* Steps 2 to 4: valid_tasks with the heuristic attributes written, sorted
PrefHeuristics(valid_tasks, use_mrv, use_dh) ==
    PrefSort((IF use_dh
              THEN WithDegree(IF use_mrv THEN WithMrv(valid_tasks) ELSE valid_tasks)
              ELSE IF use_mrv THEN WithMrv(valid_tasks) ELSE valid_tasks),
             use_mrv, use_dh)

\* Step 5 divides by len(required): ZeroDivisionError for an empty list
FitnessRaises(task) ==
    /\ "requires" \in DOMAIN task.constraints
    /\ task.constraints.requires.list
    /\ task.constraints.requires.items = <<>>

\* The bonus of a task flagged is_preference: 30
PreferenceBonusNone(task) == 0
PreferenceBonus(task) == IF Get(task, "is_preference", FALSE) THEN 3000 ELSE 0

\* Step 5, fitness
Fitness(task, current_conditions, clock) ==
    LET current_hour == Hour(Get(current_conditions, "current_time", clock))
        available_resources == Get(current_conditions, "available_resources", {})
        current_emotion == Get(current_conditions, "current_emotion", "neutral")
        allowed_time == task.constraints.allowed_time
        \* twice optimal_hour and twice time_diff
        optimal2 == IF "optimal" \in DOMAIN allowed_time THEN 2 * allowed_time.optimal
                    ELSE WindowStart(task) + WindowEnd(task)
        time_diff2 == Abs(2 * current_hour - optimal2)
        required == task.constraints.requires
        available_count == Cardinality({k \in 1..Len(required.items) :
                                           required.items[k] \in available_resources})
    IN  (IF HasWindow(task) THEN Max(0, 20 - time_diff2) * 20 ELSE 0)
        + (IF "requires" \in DOMAIN task.constraints
           THEN IF required.list
                THEN (available_count * 300) \div Len(required.items)
                ELSE IF required.items[1] \in available_resources THEN 300 ELSE 0
           ELSE 0)
        + (IF current_emotion \in task.emotion_fit THEN 300 ELSE 150)
        + PreferenceBonus(task)

\* Step 1: the tasks that pass every hard constraint
PrefValid(ts, current_conditions, clock) ==
    SelectSeq(ts, LAMBDA task : PrefReasons(task, current_conditions, clock) = <<>>)

\* Step 1: excluded_reasons, a name and its reasons per excluded task
PrefExcluded(ts, current_conditions, clock) ==
    LET excluded == SelectSeq(ts, LAMBDA task :
                        PrefReasons(task, current_conditions, clock) # <<>>)
    IN  [k \in DOMAIN excluded |->
            [name |-> excluded[k].name,
             reasons |-> PrefReasons(excluded[k], current_conditions, clock)]]

\* Step 5: the number of tasks scored, all of them or those before the
\* first one the division raises at
ScoredCount(ordered) ==
    LET failing == {k \in DOMAIN ordered : FitnessRaises(ordered[k])}
    IN  IF failing = {} THEN Len(ordered)
        ELSE (CHOOSE k \in failing : \A j \in failing : k <= j) - 1

\* Step 5: fitness_score written to the first done tasks of the sorted list
PrefScored(ordered, done, current_conditions, clock) ==
    [k \in DOMAIN ordered |->
        IF k <= done
        THEN SetAttr(ordered[k], "fitness_score",
                     Fitness(ordered[k], current_conditions, clock))
        ELSE ordered[k]]

\* The sort by fitness and the return, or the exception
PrefReturn(ts, scored, raised, excluded_reasons) ==
    LET ranked == SortBy(scored, [k \in DOMAIN scored |-> scored[k].fitness_score], TRUE)
    IN  IF raised
        THEN [state |-> "raised", pair |-> FALSE, ranked |-> <<>>,
              excluded_reasons |-> <<>>, tasks |-> MergeById(ts, scored)]
        ELSE [state |-> "returned", pair |-> TRUE,
              ranked |-> [k \in DOMAIN ranked |-> ranked[k].id],
              excluded_reasons |-> excluded_reasons,
              tasks |-> MergeById(ts, scored)]

\* Steps 2 to 5 on the valid tasks
PrefRank(ts, ordered, current_conditions, clock, excluded_reasons) ==
    PrefReturn(ts, PrefScored(ordered, ScoredCount(ordered), current_conditions, clock),
               ScoredCount(ordered) < Len(ordered), excluded_reasons)

\* csp_preferences(tasks, current_conditions, use_mrv, use_dh): what it
\* returns (pair tells a 2-tuple from the bare list) or that it raised, and
\* the pool as the call leaves it
csp_preferences(ts, current_conditions, use_mrv, use_dh, clock) ==
    IF ts = <<>>
    THEN [state |-> "returned", pair |-> FALSE, ranked |-> <<>>,
          excluded_reasons |-> <<>>, tasks |-> ts]
    ELSE PrefRank(ts,
                  PrefHeuristics(PrefValid(ts, current_conditions, clock), use_mrv, use_dh),
                  current_conditions, clock,
                  PrefExcluded(ts, current_conditions, clock))

\* csp_preferences(tasks, conditions, use_mrv, use_dh)
CspPreferences ==
    /\ pc = "idle"
    /\ \E use_mrv \in BOOLEAN, use_dh \in BOOLEAN :
          LET result == csp_preferences(tasks, conditions, use_mrv, use_dh, now)
          IN  /\ tasks' = result.tasks
              /\ ret' = [use_mrv |-> use_mrv, use_dh |-> use_dh,
                         state |-> result.state, pair |-> result.pair,
                         ranked |-> result.ranked,
                         excluded_reasons |-> result.excluded_reasons]
    /\ op' = "csp_preferences"
    /\ UNCHANGED <<conditions, now, csp, assignment, pc, solo, search, session>>

\* The tasks a preference pool is drawn from: mood activities and the
\* preferences a user authored, flagged is_preference or not
PrefTasks ==
    { SetAttr(NewTask(0, "Music", 8, "user_preference", 30, {"sad", "happy"}, NoDate,
                      "preference",
                      [allowed_time |-> [dict |-> TRUE, start |-> 17, end |-> 22],
                       requires |-> [list |-> TRUE, items |-> <<"speaker">>]]),
              "is_preference", TRUE),
      SetAttr(NewTask(0, "Call", 8, "user_preference", 30, {"sad"}, NoDate, "preference",
                      [allowed_time |-> [dict |-> TRUE, start |-> 0, end |-> 24,
                                         optimal |-> 3]]),
              "is_preference", TRUE),
      NewTask(0, "Stretch", 5, "break", 30, {"sad", "neutral"}, NoDate, "general",
              [allowed_time |-> [dict |-> TRUE, start |-> 8, end |-> 20, optimal |-> 18],
               requires |-> [list |-> FALSE, items |-> <<"mat">>]]),
      NewTask(0, "Tea", 5, "break", 30, {"sad"}, NoDate, "mood_changer",
              [preferred_time |-> "evening"]),
      SetAttr(NewTask(0, "Notes", 8, "user_preference", 30, {"sad"}, NoDate, "preference",
                      [allowed_time |-> [dict |-> TRUE, start |-> 0, end |-> 24],
                       requires |-> [list |-> TRUE, items |-> <<>>]]),
              "is_preference", TRUE) }

PrefConditions ==
    { EmptyDict,
      [current_emotion |-> "sad", available_resources |-> {"speaker", "mat"}],
      [current_emotion |-> "happy", available_resources |-> {"speaker"},
       current_time |-> At(2, 20, 0)] }

InitPref ==
    /\ tasks \in {PoolOf(ts) : ts \in SeqsUpTo(PrefTasks, MaxPrefPool)}
    /\ conditions \in PrefConditions
    /\ now = At(1, 18, 0)
    /\ op = "init"
    /\ ret = EmptyDict
    /\ CspIdle
    /\ search = NoSearch
    /\ session = NoSession

NextPref == CspPreferences

SpecPref == InitPref /\ [][NextPref]_vars

\* C18: csp_preferences returns a pair (ranked_tasks, excluded_reasons) for
\* every input, an empty task list and a list of which every task is excluded
\* included, so that a caller can unpack the result into two values.
PreferencesReturnPair ==
    op = "csp_preferences" => ret.state = "returned" /\ ret.pair

\* The list csp_preferences returned, as tasks of the pool
PrefRanked == [k \in DOMAIN ret.ranked |-> tasks[ret.ranked[k]]]

\* C19: in the list csp_preferences returns every task flagged is_preference
\* comes before every task that is not flagged, and the list is in order of
\* non-increasing fitness_score.
PreferencesRankedFirst ==
    op = "csp_preferences" /\ ret.state = "returned" =>
        \A k, l \in DOMAIN ret.ranked :
            k < l =>
                /\ PrefRanked[k].fitness_score >= PrefRanked[l].fitness_score
                /\ Get(PrefRanked[l], "is_preference", FALSE)
                       => Get(PrefRanked[k], "is_preference", FALSE)

\* C19's case: the returned list holds a flagged task of the least fitness a
\* flagged task can have (33.0) and an unflagged task of the greatest fitness
\* an unflagged task can have (10.0)
PreferencesOutrankBestOther ==
    /\ op = "csp_preferences" /\ ret.state = "returned" /\ ret.pair
    /\ \E k, l \in DOMAIN ret.ranked :
          /\ Get(PrefRanked[k], "is_preference", FALSE)
          /\ PrefRanked[k].fitness_score = 3300
          /\ ~Get(PrefRanked[l], "is_preference", FALSE)
          /\ PrefRanked[l].fitness_score = 1000

(***************************************************************************)
(* The attempt statistics (task.py, mark_attempted).                       *)
(***************************************************************************)
\* What one step does to the statistics of task i: a mark_attempted call on
\* it counts one attempt and moves success_rate by +0.1 up to 1.0 or by -0.2
\* down to 0.1; any other step leaves both as they are
AttemptStep(i) ==
    LET before == tasks[i]
        after == tasks'[i]
    IN  IF op' = "mark_attempted" /\ ret'.task = i
        THEN /\ after.attempt_count = before.attempt_count + 1
             /\ after.success_rate =
                    IF ret'.successful
                    THEN (IF before.success_rate + 1 > 10 THEN 10
                          ELSE before.success_rate + 1)
                    ELSE (IF before.success_rate - 2 < 1 THEN 1
                          ELSE before.success_rate - 2)
        ELSE /\ after.attempt_count = before.attempt_count
             /\ after.success_rate = before.success_rate

\* C20: after any sequence of mark_attempted calls, successes and failures
\* mixed, success_rate is within [0.1, 1.0]; each success raises it by 0.1
\* unless capped at 1.0, each failure lowers it by 0.2 unless floored at 0.1,
\* and attempt_count, 0 at construction, grows by 1 with every call and with
\* nothing else.
AttemptsCountedRateClamped ==
    /\ \A i \in DOMAIN tasks : tasks[i].attempt_count = 0
    /\ [](\A i \in DOMAIN tasks : tasks[i].success_rate \in 1..10)
    /\ [][\A i \in DOMAIN tasks : AttemptStep(i)]_vars

\* C20's case: five or more calls, every one a failure, the fifth of them
\* floored at 0.1 (1.0, 0.8, 0.6, 0.4, 0.2, 0.1)
FailureFlooredAfterFive ==
    /\ op = "mark_attempted"
    /\ ~ret.successful
    /\ tasks[ret.task].attempt_count >= 5
    /\ ~tasks[ret.task].completed
    /\ tasks[ret.task].success_rate = 1

(***************************************************************************)
(* The fallback sequence (algorithms.py,                                   *)
(* fallback_sequence_with_preferences).                                    *)
(***************************************************************************)
\* [t for t in ts if t.category in categories]
OfCategory(ts, categories) == SelectSeq(ts, LAMBDA t : t.category \in categories)

\* ts.sort(key=lambda x: x.base_priority, reverse=True)
ByPriority(ts) == SortBy(ts, [k \in DOMAIN ts |-> ts[k].base_priority], TRUE)

\* ts.sort(key=lambda x: (x.base_priority, -x.duration), reverse=True);
\* a duration is below 1000 minutes
ByPriorityThenShorter(ts) ==
    SortBy(ts, [k \in DOMAIN ts |-> 1000 * ts[k].base_priority - ts[k].duration], TRUE)

\* ts[:n]
Prefix(ts, n) == SubSeq(ts, 1, Min(Max(n, 0), Len(ts)))

\* sequence, then first while the sequence is shorter than length
ExtendUpTo(sequence, more, length) ==
    IF more # <<>> /\ Len(sequence) < length
    THEN sequence \o Prefix(more, length - Len(sequence))
    ELSE sequence

\* The branch of a negative emotion: one mood task, then work tasks
MoodThenWork(matching_tasks, length) ==
    ExtendUpTo(Prefix(ByPriorityThenShorter(
                          OfCategory(matching_tasks,
                                     {"break", "personal", "life", "mood_enhancer",
                                      "user_preference"})), 1),
               ByPriority(OfCategory(matching_tasks, {"academic", "work", "todo_must"})),
               length)

\* The branch of the other emotions: two productive tasks, then preferences
WorkThenPreferences(matching_tasks, length) ==
    ExtendUpTo(Prefix(ByPriority(OfCategory(matching_tasks,
                                            {"academic", "work", "todo_must"})),
                      Min(2, length)),
               ByPriority(OfCategory(matching_tasks, {"user_preference", "mood_enhancer"})),
               length)

\* The remaining slots filled without leaving out the tasks of sequence
FillRepeating(matching_tasks, sequence, length) ==
    IF Len(sequence) < length
    THEN sequence \o Prefix(ByPriority(matching_tasks), length - Len(sequence))
    ELSE sequence

\* The remaining slots, filled by priority with the tasks not yet in sequence
FillRemaining(matching_tasks, sequence, length) ==
    IF Len(sequence) < length
    THEN sequence
         \o Prefix(ByPriority(SelectSeq(matching_tasks,
                                        LAMBDA t : t.id \notin Ids(sequence))),
                   length - Len(sequence))
    ELSE sequence

\* The tasks that admit the emotion, or all tasks when none does
MatchingTasks(all_tasks, emotion) ==
    IF \E k \in DOMAIN all_tasks : emotion \in all_tasks[k].emotion_fit
    THEN SelectSeq(all_tasks, LAMBDA t : emotion \in t.emotion_fit)
    ELSE all_tasks

\* fallback_sequence_with_preferences(all_tasks, emotion, user_preferences,
\* length); user_preferences is never read
FallbackOf(matching_tasks, emotion, length) ==
    Prefix(FillRemaining(matching_tasks,
                         (IF emotion \in {"sad", "angry", "tired", "stressed"}
                          THEN MoodThenWork(matching_tasks, length)
                          ELSE WorkThenPreferences(matching_tasks, length)),
                         length),
           length)
fallback_sequence_with_preferences(all_tasks, emotion, length) ==
    FallbackOf(MatchingTasks(all_tasks, emotion), emotion, length)

\* fallback_sequence_with_preferences(tasks, emotion, None, length)
FallbackSequence ==
    /\ pc = "idle"
    /\ \E emotion \in {"sad", "tired", "happy", "neutral"}, length \in 0..MaxLength :
          LET sequence == fallback_sequence_with_preferences(tasks, emotion, length)
          IN  ret' = [emotion |-> emotion, length |-> length,
                      sequence |-> [k \in DOMAIN sequence |-> sequence[k].id]]
    /\ op' = "fallback_sequence_with_preferences"
    /\ UNCHANGED <<tasks, conditions, now, csp, assignment, pc, solo, search, session>>

FallbackTasks ==
    { NewTask(0, "Walk", 5, "break", 30, {"sad"}, NoDate, "general", EmptyDict),
      NewTask(0, "Nap", 5, "break", 10, {"sad", "tired"}, NoDate, "general", EmptyDict),
      NewTask(0, "Report", 8, "work", 30, {"sad", "happy"}, NoDate, "must_do", EmptyDict),
      NewTask(0, "Study", 6, "academic", 45, {"happy"}, NoDate, "general", EmptyDict),
      NewTask(0, "Paint", 7, "user_preference", 30, {"happy", "sad"}, NoDate, "preference",
              EmptyDict),
      NewTask(0, "Chess", 9, "hobby", 30, {"sad", "happy"}, NoDate, "general", EmptyDict) }

InitFallback ==
    /\ tasks \in {PoolOf(ts) : ts \in SeqsUpTo(FallbackTasks, MaxFallbackPool)}
    /\ conditions = EmptyDict
    /\ now = At(1, 18, 0)
    /\ op = "init"
    /\ ret = EmptyDict
    /\ CspIdle
    /\ search = NoSearch
    /\ session = NoSession

NextFallback == FallbackSequence

SpecFallback == InitFallback /\ [][NextFallback]_vars

\* The candidate pool of the call: the ids of the tasks that admit the
\* emotion, or of all tasks when none does
Candidates(emotion) ==
    LET admitting == {k \in DOMAIN tasks : emotion \in tasks[k].emotion_fit}
    IN  IF admitting = {} THEN DOMAIN tasks ELSE admitting

\* C22: fallback_sequence_with_preferences returns exactly length distinct
\* tasks whenever its candidate pool holds at least length tasks, and never
\* more than length tasks or a task twice.
FallbackExactLength ==
    op = "fallback_sequence_with_preferences" =>
        /\ Len(ret.sequence) <= ret.length
        /\ \A k, l \in DOMAIN ret.sequence : k < l => ret.sequence[k] # ret.sequence[l]
        /\ Cardinality(Candidates(ret.emotion)) >= ret.length
               => Len(ret.sequence) = ret.length

\* C22's case: a sequence of 3 for a negative emotion: a mood task first, a
\* work task next and the last slot filled from the rest of the candidates
FallbackFilledFromRest ==
    /\ op = "fallback_sequence_with_preferences"
    /\ ret.emotion = "sad" /\ ret.length = 3 /\ Len(ret.sequence) = 3
    /\ tasks[ret.sequence[1]].category = "break"
    /\ tasks[ret.sequence[2]].category = "work"
    /\ tasks[ret.sequence[3]].category = "hobby"

(***************************************************************************)
(* The constraint solver's end (algorithms.py, CSP.solve, csp_filter).     *)
(***************************************************************************)
\* C23: csp_filter ends with a (recommended_tasks, warnings) result and
\* never raises, whatever the pool, a pool in which two tasks have the same
\* name included.
CspNeverRaises == CspEnded => ret.state = "returned"

(***************************************************************************)
(* Sequences of calls of the core operations on one pool.                  *)
(***************************************************************************)
FrameTasks ==
    { NewTask(0, "Walk", 5, "break", 30, {"sad", "neutral"}, NoDate, "general", EmptyDict),
      SetAttr(NewTask(0, "Report", 8, "user_preference", 45, {"sad"}, DateStr(2), "must_do",
                      [allowed_time |-> [dict |-> TRUE, start |-> 9, end |-> 20],
                       requires |-> [list |-> FALSE, items |-> <<"internet">>]]),
              "is_preference", TRUE) }

InitFrame ==
    /\ tasks \in {PoolOf(ts) : ts \in SeqsUpTo(FrameTasks, MaxFramePool)}
    /\ conditions = [current_emotion |-> "sad", available_resources |-> {"internet"}]
    /\ now = At(1, 18, 0)
    /\ op = "init"
    /\ ret = EmptyDict
    /\ CspIdle
    /\ search = NoSearch
    /\ session = NoSession

\* No call has scored a task yet, no call has ranked a preference yet
Unscored == \A i \in 1..Len(tasks) : tasks[i].score = 0
Unranked == \A i \in 1..Len(tasks) : "fitness_score" \notin DOMAIN tasks[i]

\* One call at a time, each on the pool as the calls before it left it: the
\* calls that write nothing to a task in any number and order, then one of
\* the calls that score the tasks and one of csp_preferences, in either order
NextFrame ==
    \/ (Unscored /\ Unranked /\ pc = "idle" /\ ApplyStrictConstraints)
    \/ (Unscored /\ Unranked /\ CspFilter)
    \/ Backtrack
    \/ (Unscored /\ Unranked /\ pc = "idle" /\ CspTask)
    \/ (Unranked /\ CspPreferences)
    \/ (Unscored /\ Greedy)
    \/ (Unscored /\ HillClimbing)
    \/ (Unscored /\ Stochastic)
    \/ (Unscored /\ MiniAStar)
    \/ SearchLoop
    \/ (Unscored /\ Unranked /\ FallbackSequence)
    \/ (Unscored /\ Unranked /\ pc = "idle" /\ MultiObjectiveOptimization)

SpecFrame == InitFrame /\ [][NextFrame]_vars

\* The static attributes and the success-tracking fields of a task
StaticOf(t) ==
    [name |-> t.name, base_priority |-> t.base_priority, category |-> t.category,
     duration |-> t.duration, emotion_fit |-> t.emotion_fit, deadline |-> t.deadline,
     task_type |-> t.task_type, constraints |-> t.constraints,
     success_rate |-> t.success_rate, attempt_count |-> t.attempt_count]

\* C24: no call of apply_strict_constraints, csp_filter, csp_task,
\* csp_preferences, greedy, hill_climbing, stochastic, mini_a_star,
\* fallback_sequence_with_preferences or multi_objective_optimization changes
\* a task's name, base_priority, category, duration, emotion_fit, deadline,
\* task_type, constraints, success_rate or attempt_count, and the list passed
\* in (tasks followed by user_preferences) keeps its elements in their order.
FrameKept ==
    [][/\ Len(tasks') = Len(tasks)
       /\ \A i \in DOMAIN tasks :
             /\ tasks'[i].id = tasks[i].id
             /\ StaticOf(tasks'[i]) = StaticOf(tasks[i])]_vars

\* C24's case: greedy has scored the pool and csp_preferences, called next,
\* returned its two tasks in the reverse of the pool's order
RankedReversedAfterScoring ==
    /\ op = "csp_preferences" /\ ret.state = "returned"
    /\ ret.ranked = <<2, 1>>
    /\ tasks[1].score > 0 /\ tasks[2].score > 0
    /\ tasks[1].id = 1 /\ tasks[2].id = 2

(***************************************************************************)
(* The planner's emotion transition (algorithms.py, predict_next_emotion). *)
(***************************************************************************)
\* C25: the planner's emotion transition treats sad, angry, tired and
\* stressed alike: from any of them the predicted emotion is neutral after a
\* task of a mood category, tired after a task of a work category and
\* neutral after a task of any other category.
NegativeEmotionsAlike ==
    pc = "search" /\ search.current_emotion \in {"sad", "angry", "tired", "stressed"} =>
        \A node \in search.open_set :
            Len(node.sequence) = 1 =>
                node.emotion_after =
                    IF tasks[node.sequence[1]].category
                           \in {"break", "personal", "life", "mood_enhancer",
                                "user_preference"}
                    THEN "neutral"
                    ELSE IF tasks[node.sequence[1]].category
                                \in {"academic", "work", "todo_must"}
                    THEN "tired"
                    ELSE "neutral"

(***************************************************************************)
(* The partition csp_preferences makes of its input.                       *)
(***************************************************************************)
\* The hour, the resources and the emotion a csp_preferences call goes by
PrefHour == Hour(Get(conditions, "current_time", now))
PrefResources == Get(conditions, "available_resources", {})
PrefEmotion == Get(conditions, "current_emotion", "neutral")

\* The hours of a preferred_time word
PreferredHours(word) ==
    IF word = "morning" THEN 6..11
    ELSE IF word = "afternoon" THEN 12..16
    ELSE IF word = "evening" THEN 17..21
    ELSE IF word = "daylight" THEN 7..17
    ELSE IF word = "night" THEN (19..23) \cup (0..4)
    ELSE 0..23

\* A task has what C26 states of a ranked task
RankedAsClaimed(t) ==
    /\ "requires" \in DOMAIN t.constraints
           => Range(t.constraints.requires.items) \subseteq PrefResources
    /\ "allowed_time" \in DOMAIN t.constraints
           => PrefHour \in Get(t.constraints.allowed_time, "start", 0)
                            .. (Get(t.constraints.allowed_time, "end", 24) - 1)
    /\ "preferred_time" \in DOMAIN t.constraints
           => PrefHour \in PreferredHours(t.constraints.preferred_time)
    /\ PrefEmotion \in t.emotion_fit

\* A csp_preferences call has returned its pair
PrefReturned == op = "csp_preferences" /\ ret.state = "returned" /\ ret.pair

\* C26: csp_preferences partitions its input: every input task is either in
\* ranked_tasks or has exactly one entry in excluded_reasons, never both, and
\* every ranked task has its required resources available, lies inside its
\* allowed_time and preferred_time windows at the current hour and admits
\* the current emotion.
PreferencesPartition ==
    PrefReturned =>
        /\ Range(ret.ranked) \subseteq DOMAIN tasks
        /\ \A k, l \in DOMAIN ret.ranked : k # l => ret.ranked[k] # ret.ranked[l]
        /\ \A i \in DOMAIN tasks :
               Cardinality({k \in DOMAIN ret.excluded_reasons :
                               ret.excluded_reasons[k].name = tasks[i].name})
                   = Cardinality({j \in DOMAIN tasks \ Range(ret.ranked) :
                                     tasks[j].name = tasks[i].name})
        /\ Len(ret.ranked) + Len(ret.excluded_reasons) = Len(tasks)
        /\ \A k \in DOMAIN ret.ranked : RankedAsClaimed(tasks[ret.ranked[k]])

\* C26's case: a task is ranked and another is excluded for its resource,
\* its time window and the emotion at once
RankedAndThriceExcluded ==
    /\ PrefReturned
    /\ ret.ranked # <<>>
    /\ \E k \in DOMAIN ret.excluded_reasons : Len(ret.excluded_reasons[k].reasons) = 3

(***************************************************************************)
(* The planner's search loop (algorithms.py, mini_a_star: while open_set). *)
(***************************************************************************)
\* The loop runs on once entered: `while open_set` is left only when the
\* open set is empty
InitSearch == InitPlan /\ Len(tasks) <= MaxSearchPool

SpecPlanFair == InitSearch /\ [][NextPlan]_vars /\ WF_vars(SearchLoop)

\* Every node on the open set has a chain of pairwise distinct tasks of the
\* pool, no longer than the pool and than max_sequence_length
SearchNodesBounded ==
    pc = "search" =>
        \A node \in search.open_set :
            /\ \A k, l \in DOMAIN node.sequence :
                   k # l => node.sequence[k] # node.sequence[l]
            /\ Range(node.sequence) \subseteq Range(search.all_tasks)
            /\ Len(node.sequence) <= Len(search.all_tasks)
            /\ Len(node.sequence) <= search.max_sequence_length

\* C27: mini_a_star's search terminates for every pool and every
\* max_sequence_length, one larger than the pool included: every node
\* pushed on the open set has a chain of pairwise distinct tasks, its depth
\* never exceeds min(pool size, max_sequence_length), and the open set
\* eventually becomes empty (the call returns).
SearchTerminates ==
    /\ []SearchNodesBounded
    /\ (pc = "search") ~> (pc = "idle" /\ op = "mini_a_star" /\ ret.state = "returned")

\* C27's case: max_sequence_length is larger than the pool and a node as
\* deep as the pool is large is on the open set
SearchDeepAsPool ==
    /\ pc = "search"
    /\ search.max_sequence_length > Len(search.all_tasks)
    /\ \E node \in search.open_set :
          Len(node.sequence) = Len(search.all_tasks) /\ Len(node.sequence) >= 2

(***************************************************************************)
(* The course of CSP.backtrack over distinct names (algorithms.py).        *)
(***************************************************************************)
\* The warnings of a finished call hold 'CSP could not find a solution'
NoSolutionReported ==
    \E k \in 1..Len(ret.warnings) : ret.warnings[k].kind = "no solution"

\* One call of backtrack goes as C28 states: with every variable assigned
\* the assignment is the solution solve() reads; otherwise the MRV heuristic
\* selects the variable and it is assigned True when True is consistent,
\* False otherwise, on top of the assignment as it was
BacktrackStep ==
    IF Len(assignment) = Len(Variables(csp))
    THEN /\ assignment' = assignment
         /\ pc' = "idle"
         /\ ret'.state = "returned"
         /\ ~NoSolutionReported'
    ELSE LET var == mrv_heuristic(csp, assignment, now)
         IN  /\ var # NoneVar
             /\ assignment' =
                   Append(assignment,
                          [var |-> var,
                           value |-> is_consistent(csp, assignment, var, TRUE, now)])
             /\ pc' = "backtrack"

\* csp_filter over the pools of distinctly named tasks
InitSolve == InitCsp /\ DistinctNames(tasks)

SpecSolve == InitSolve /\ [][NextCsp]_vars

PlanNonEmptyWhenAdmissible ==
    PlanReturned =>
        ( (\E i \in 1..Len(tasks) :
              StrictlyValid(tasks[i], conditions, ret.emotion, now))
          => ret.sequence # <<>> )

(***************************************************************************)
(* The session loop (emotion_task_optimizer.py, integrated_task_mode),     *)
(* run with selected_algorithm 2 (greedy).  tasks holds the task objects   *)
(* of todo_tasks and of the pool mood_activities + user_preferences, the   *)
(* session's lists hold their ids (0 for None); conditions is              *)
(* current_conditions; time.time() and datetime.now() read the clock now,  *)
(* in minutes.                                                             *)
(***************************************************************************)
\* undone = [t for t in todo_tasks if t not in completed_tasks]
Undone(s) == SelectSeq(s.todo_tasks, LAMBDA i : i \notin Range(s.completed_tasks))

\* The sort key (t.deadline if t.deadline else "9999-12-31", -t.base_priority)
\* of a is smaller than that of b
TodoBefore(a, b) ==
    \/ a.deadline.kind = "date" /\ b.deadline.kind = "none"
    \/ a.deadline.kind = "date" /\ b.deadline.kind = "date"
          /\ a.deadline.day < b.deadline.day
    \/ /\ a.deadline = b.deadline
       /\ a.base_priority > b.base_priority

\* undone[0] after undone.sort(key=...): the first task of the smallest key
NextTodo(s, ts) ==
    LET undone == Undone(s)
    IN  undone[CHOOSE k \in 1..Len(undone) :
                  /\ \A j \in 1..Len(undone) : ~TodoBefore(ts[undone[j]], ts[undone[k]])
                  /\ \A j \in 1..(k - 1) : TodoBefore(ts[undone[k]], ts[undone[j]])]

\* The pool of a new search, every task flagged is_preference
FlaggedPool(s, ts) ==
    [i \in DOMAIN ts |-> IF i \in Range(s.pool) THEN SetAttr(ts[i], "is_preference", TRUE)
                         ELSE ts[i]]

\* The session after a search that returned best: the recommendation is
\* replaced and a todo being worked on is interrupted by a break
AutoBreak(s, emotion, best) ==
    LET recommended_tasks == IF best.best_task # 0 THEN <<best.best_task>> ELSE <<>>
    IN  IF recommended_tasks # <<>> /\ s.ui_state = "WORKING_TODO"
        THEN [s EXCEPT !.last_emotion = emotion,
                       !.recommended_tasks = recommended_tasks,
                       !.interrupted_task = s.current_task,
                       !.current_task = 0,
                       !.ui_state = "BREAK",
                       !.emotion_detection_paused = TRUE]
        ELSE [s EXCEPT !.last_emotion = emotion,
                       !.recommended_tasks = recommended_tasks]

\* The emotion detection block of one iteration
DetectEmotion(s, ts, conds, emotion, clock) ==
    IF s.emotion_detection_paused \/ emotion = s.last_emotion
    THEN [session |-> s, tasks |-> ts, conditions |-> conds]
    ELSE CHOOSE after \in
             { [session |-> AutoBreak(s, emotion, best),
                tasks |-> MergeById(FlaggedPool(s, ts), best.tasks),
                conditions |-> [conds EXCEPT !.current_emotion = emotion]] :
                 best \in { greedy([k \in DOMAIN s.pool |-> FlaggedPool(s, ts)[s.pool[k]]],
                                   emotion,
                                   [conds EXCEPT !.current_emotion = emotion],
                                   clock) } } : TRUE

\* The countdown block of one iteration
Countdown(s, ts, clock) ==
    IF s.ui_state = "WORKING_TODO" /\ s.current_task # 0
    THEN LET elapsed == clock - s.task_start_time
             remaining_time == Max(0, ts[s.current_task].duration - elapsed)
         IN  IF remaining_time <= 0
             THEN [s EXCEPT !.remaining_time = remaining_time,
                            !.completed_tasks = Append(@, s.current_task),
                            !.current_task = 0,
                            !.ui_state = "TODO_SELECTION"]
             ELSE [s EXCEPT !.remaining_time = remaining_time]
    ELSE s

\* Key 's' in TODO_SELECTION
KeyStart(s, ts, key, clock) ==
    IF s.ui_state = "TODO_SELECTION" /\ key = "s" /\ Undone(s) # <<>>
    THEN [s EXCEPT !.current_task = NextTodo(s, ts),
                   !.task_start_time = clock,
                   !.ui_state = "WORKING_TODO"]
    ELSE s

\* Key 'b' in WORKING_TODO
KeyBreak(s, key) ==
    IF s.ui_state = "WORKING_TODO" /\ key = "b"
    THEN [s EXCEPT !.interrupted_task = s.current_task, !.ui_state = "BREAK"]
    ELSE s

\* idx = key - ord('1')
KeyIdx(key) == IF key = "1" THEN 0 ELSE IF key = "2" THEN 1 ELSE 2

\* Keys '1' to '3' in BREAK
KeyChoice(s, key, clock) ==
    IF /\ s.ui_state = "BREAK" /\ key \in {"1", "2", "3"}
       /\ KeyIdx(key) < Len(s.recommended_tasks)
    THEN [s EXCEPT !.current_task = s.recommended_tasks[KeyIdx(key) + 1],
                   !.task_start_time = clock,
                   !.emotion_detection_paused = TRUE]
    ELSE s

\* The end of a break: "Returning to TODO"
BreakOver(s, ts, clock) ==
    IF /\ s.ui_state = "BREAK" /\ s.current_task # 0
       /\ clock - s.task_start_time >= ts[s.current_task].duration
    THEN [s EXCEPT !.current_task = s.interrupted_task,
                   !.interrupted_task = 0,
                   !.task_start_time = clock,
                   !.ui_state = "WORKING_TODO",
                   !.emotion_detection_paused = FALSE]
    ELSE s

\* The key handling of one iteration, 'q' apart
KeyHandling(s, ts, key, clock) ==
    BreakOver(KeyChoice(KeyBreak(KeyStart(s, ts, key, clock), key), key, clock),
              ts, clock)

\* What the detector reports and what cv2.waitKey returns ("" for no key)
SessionEmotions == {"neutral", "sad"}
SessionKeys == {"", "s", "b", "1", "2", "q"}

\* One iteration of the while loop, dt minutes after the one before
SessionLoop ==
    /\ pc = "session"
    /\ \E emotion \in SessionEmotions, key \in SessionKeys, dt \in 0..1 :
          /\ now + dt <= At(1, 18, MaxSessionMinutes)
          /\ now' = now + dt
          /\ \E detected \in
                 { DetectEmotion(session, tasks,
                                 [conditions EXCEPT !.current_time = now + dt],
                                 emotion, now + dt) } :
                \E worked \in { Countdown(detected.session, detected.tasks, now + dt) } :
                   /\ tasks' = detected.tasks
                   /\ conditions' = detected.conditions
                   /\ IF key = "q"
                      THEN session' = worked /\ pc' = "idle"
                      ELSE /\ session' = KeyHandling(worked, detected.tasks, key, now + dt)
                           /\ pc' = "session"
          /\ ret' = [emotion |-> emotion, key |-> key]
    /\ op' = "integrated_task_mode"
    /\ UNCHANGED <<csp, assignment, solo, search>>

SessionTodos ==
    { NewTask(0, "Report", 8, "todo_must", 2, {"happy", "neutral"}, NoDate, "must_do",
              EmptyDict),
      NewTask(0, "Essay", 5, "todo_must", 3, {"happy", "neutral"}, DateStr(2), "must_do",
              EmptyDict) }

SessionPool ==
    << NewTask(0, "Walk", 5, "break", 1, {"sad"}, NoDate, "general", EmptyDict),
       NewTask(0, "Nap", 4, "break", 2, {"sad", "tired"}, NoDate, "general",
               [requires |-> [list |-> FALSE, items |-> <<"bed">>]]) >>

\* integrated_task_mode has been called and stands before its loop
InitSession ==
    /\ \E todo_tasks \in SeqsUpTo(SessionTodos, MaxSessionTodos) :
          /\ tasks = PoolOf(todo_tasks \o SessionPool)
          /\ session = [ui_state |-> "TODO_SELECTION",
                        recommended_tasks |-> <<>>,
                        interrupted_task |-> 0,
                        current_task |-> 0,
                        completed_tasks |-> <<>>,
                        task_start_time |-> 0,
                        remaining_time |-> 0,
                        last_emotion |-> "neutral",
                        emotion_detection_paused |-> FALSE,
                        todo_tasks |-> [k \in 1..Len(todo_tasks) |-> k],
                        pool |-> [k \in 1..Len(SessionPool) |-> Len(todo_tasks) + k]]
    /\ now = At(1, 18, 0)
    /\ conditions = [current_time |-> now,
                     available_resources |-> {"computer", "internet"},
                     current_energy |-> 5,
                     current_emotion |-> "neutral"]
    /\ op = "init"
    /\ ret = EmptyDict
    /\ csp = EmptyDict /\ assignment = <<>> /\ solo = NoSolo
    /\ pc = "session"
    /\ search = NoSearch

NextSession == SessionLoop

SpecSession == InitSession /\ [][NextSession]_vars

\* The time the todo being worked on has left at the clock's reading
TimeLeft(s, ts, clock) ==
    ts[s.current_task].duration - (clock - s.task_start_time)

\* C30: a todo interrupted by a break, entered by the 'b' key or by an
\* emotion change, resumes after the break with the remaining time it had
\* when the break began: the time worked on it before the break still counts
\* toward its duration, so it has no more time left than the countdown
\* showed last.
TodoKeepsTimeWorked ==
    [][(/\ pc = "session" /\ session.ui_state = "BREAK"
        /\ pc' = "session" /\ session'.ui_state = "WORKING_TODO")
       => TimeLeft(session', tasks', now') <= session.remaining_time]_vars

====
